---- MODULE Spec2Model ----
(***************************************************************************)
(* A model of the RAG query pipeline of aws-rag-s3-vectors:                *)
(*   - S3VectorClient.query_vectors  (src/src/s3_vector_client.py)         *)
(*   - S3VectorClient.upsert_vectors (src/src/s3_vector_client.py)         *)
(*   - RAGService.process_query      (src/src/rag_service.py)              *)
(*   - POST /query, query_documents  (src/src/app.py)                      *)
(*                                                                         *)
(* Real numbers (distances, similarity scores, thresholds) are fixed-point *)
(* numerators over the denominator One == 2 * Grid.  Distances are even    *)
(* numerators, so that distance / 2 is exact, as it is in binary floating  *)
(* point.                                                                  *)
(***************************************************************************)
EXTENDS Integers, Sequences, FiniteSets, TLC

VARIABLES
    \* --- S3VectorClient.query_vectors, called directly ---
    qv_pc,              \* "idle" | "calling" | "loop" | "returned" | "raised"
    qv_threshold,       \* similarity_threshold argument
    qv_top_k,           \* top_k argument
    qv_response,        \* response.get("vectors", []) of the backend
    qv_idx,             \* number of response vectors the loop has processed
    qv_distance,        \* local `distance` of the last iteration
    qv_score,           \* local `similarity_score` of the last iteration
    qv_matches,         \* local `matches`
    qv_backend_calls,   \* calls of s3vectors.query_vectors in this invocation
    \* --- S3VectorClient.upsert_vectors ---
    up_pc,              \* "idle" | "batch" | "returned" | "raised"
    up_vectors,         \* formatted_vectors
    up_i,               \* loop variable i of the batch loop
    up_attempt,         \* loop variable attempt of the retry loop
    up_total_uploaded,  \* total_uploaded
    up_index,           \* the keys the index backend has stored
    up_log,             \* put_vectors and time.sleep calls made, in call order
    up_result,          \* return value, once returned
    up_error,           \* the error raised, once raised
    \* --- POST /query and RAGService.process_query ---
    pq_pc,              \* "idle" | "embed" | "search" | "generate" | "returned" | "raised"
    pq_entry,           \* "http" (via query_documents) | "direct" | "none"
    pq_query,           \* query argument
    pq_req_threshold,   \* similarity_threshold argument as given (None when absent)
    pq_max_chunks,      \* max_chunks after parameter resolution
    pq_threshold,       \* similarity_threshold after parameter resolution
    pq_chunks,          \* similar_chunks
    pq_filter,          \* metadata_filter argument
    pq_result,          \* the returned QueryResult, or None
    pq_error,           \* the error raised, or NoError
    pq_calls,           \* log of backend calls: <<[op, arg]>>
    pq_outcomes,        \* outcome of each finished phase: "ok" | "error"
    http_status,        \* status of the HTTP response of POST /query, 0 when none
    \* --- the text_preview of a source ---
    pv_pc,              \* "idle" | "done"
    pv_text,            \* chunk_text
    pv_preview,         \* the text_preview built from it
    \* --- concurrent process_query invocations on one RAGService ---
    cq_settings,        \* self.settings, shared by the invocations
    cq_pc,              \* per invocation: "idle" | "embed" | "search" | "generate" | "returned" | "raised"
    cq_args,            \* per invocation: the arguments it was called with
    cq_max_chunks,      \* per invocation: local max_chunks after resolution
    cq_threshold,       \* per invocation: local similarity_threshold after resolution
    cq_response,        \* per invocation: the index response it received
    cq_body,            \* per invocation: the generation body it received
    cq_chunks,          \* per invocation: local similar_chunks
    cq_result,          \* per invocation: the returned result, or None
    \* --- process_query coroutines scheduled on one event loop ---
    el_thread,          \* the task the event-loop thread is running, or "none"
    el_pc,              \* per task: "ready" | "embed" | "search" | "generate" | "returned" | "raised"
    el_waited,          \* time units the running task has waited in its upstream call
    \* --- process_query with and without a telemetry manager ---
    tm_run,             \* per telemetry setting: the run of process_query
    \* --- the clock readings of one process_query call ---
    tq_pc,              \* "idle" | "embed" | "search" | "generate" | "returned"
    tq_clock,           \* time.time(), in ticks
    tq_start_time,      \* start_time
    tq_phase_start,     \* phase_start
    tq_embedding_time,  \* embedding_time_ms, in ticks
    tq_search_time,     \* search_time_ms, in ticks
    tq_generation_time, \* generation_time_ms, in ticks
    tq_result,          \* the timing fields of the returned result, or <<>>
    \* --- one delete_vectors call ---
    dl_pc,              \* "idle" | "batch" | "returned" | "raised"
    dl_vector_ids,      \* the keys given to delete_vectors
    dl_i,               \* loop variable i of the batch loop
    dl_deleted_count,   \* deleted_count
    dl_log,             \* log of backend delete calls: <<[start, batch, outcome]>>
    dl_index,           \* the keys the index backend holds
    dl_result,          \* the returned count
    dl_error,           \* the error raised to the caller, or NoError
    \* --- one health_check call ---
    hc_pc,              \* "idle" | "embed_probe" | "returned" | "raised"
    hc_services,        \* the services mapping health_check builds
    hc_probes,          \* log of the probes run: <<[op, outcome]>>
    hc_index_available, \* whether the index backend was reachable during the check
    hc_status,          \* the status GET /health reports, or "none"
    \* --- one get_index_stats call ---
    gs_pc,              \* "idle" | "returned" | "raised"
    gs_gateway,         \* the vector client the call was made on
    gs_result,          \* what the call returned
    \* --- ingestion followed by a query (upsert_vectors, then query_vectors) ---
    rt_pc,              \* "idle" | "stored" | "returned"
    rt_chunks,          \* the records given to upsert_vectors
    rt_index,           \* the vectors the index backend holds
    rt_asked,           \* position in rt_chunks of the chunk whose embedding is queried
    rt_threshold,       \* similarity_threshold of the query
    rt_matches          \* the matches query_vectors returned

qv_vars == <<qv_pc, qv_threshold, qv_top_k, qv_response, qv_idx, qv_distance,
             qv_score, qv_matches, qv_backend_calls>>
up_vars == <<up_pc, up_vectors, up_i, up_attempt, up_total_uploaded, up_index,
             up_log, up_result, up_error>>
pq_vars == <<pq_pc, pq_entry, pq_query, pq_req_threshold, pq_max_chunks,
             pq_threshold, pq_filter, pq_chunks, pq_result, pq_error,
             pq_calls, pq_outcomes, http_status>>
pv_vars == <<pv_pc, pv_text, pv_preview>>
rt_vars == <<rt_pc, rt_chunks, rt_index, rt_asked, rt_threshold, rt_matches>>
hc_vars == <<hc_pc, hc_services, hc_probes, hc_index_available, hc_status,
             gs_pc, gs_gateway, gs_result>>
dl_vars == <<dl_pc, dl_vector_ids, dl_i, dl_deleted_count, dl_log, dl_index,
             dl_result, dl_error>>
cq_vars == <<cq_settings, cq_pc, cq_args, cq_max_chunks, cq_threshold, cq_response,
             cq_body, cq_chunks, cq_result>>
el_vars == <<el_thread, el_pc, el_waited>>
tm_vars == <<tm_run>>
tq_vars == <<tq_pc, tq_clock, tq_start_time, tq_phase_start, tq_embedding_time,
             tq_search_time, tq_generation_time, tq_result>>
vars == <<qv_vars, up_vars, pq_vars, pv_vars, rt_vars, hc_vars, dl_vars, cq_vars, el_vars,
          tm_vars, tq_vars>>

\* what the actions of each operation leave alone
qv_frame == <<up_vars, pq_vars, pv_vars, rt_vars, hc_vars, dl_vars, cq_vars, el_vars,
             tm_vars, tq_vars>>
up_frame == <<qv_vars, pq_vars, pv_vars, rt_vars, hc_vars, dl_vars, cq_vars, el_vars,
             tm_vars, tq_vars>>
pq_frame == <<qv_vars, up_vars, pv_vars, rt_vars, hc_vars, dl_vars, cq_vars, el_vars,
             tm_vars, tq_vars>>
pv_frame == <<qv_vars, up_vars, pq_vars, rt_vars, hc_vars, dl_vars, cq_vars, el_vars,
             tm_vars, tq_vars>>
rt_frame == <<qv_vars, up_vars, pq_vars, pv_vars, hc_vars, dl_vars, cq_vars, el_vars,
             tm_vars, tq_vars>>
hc_frame == <<qv_vars, up_vars, pq_vars, pv_vars, rt_vars, dl_vars, cq_vars, el_vars,
             tm_vars, tq_vars>>
dl_frame == <<qv_vars, up_vars, pq_vars, pv_vars, rt_vars, hc_vars, cq_vars, el_vars,
             tm_vars, tq_vars>>
cq_frame == <<qv_vars, up_vars, pq_vars, pv_vars, rt_vars, hc_vars, dl_vars, el_vars,
             tm_vars, tq_vars>>
el_frame == <<qv_vars, up_vars, pq_vars, pv_vars, rt_vars, hc_vars, dl_vars, cq_vars,
             tm_vars, tq_vars>>
tm_frame == <<qv_vars, up_vars, pq_vars, pv_vars, rt_vars, hc_vars, dl_vars, cq_vars,
             el_vars, tq_vars>>
tq_frame == <<qv_vars, up_vars, pq_vars, pv_vars, rt_vars, hc_vars, dl_vars, cq_vars,
             el_vars, tm_vars>>

-----------------------------------------------------------------------------
(* Bounds of the model *)

Grid == 2            \* resolution of the fixed-point numbers: One == 2 * Grid
MaxVectors == 2      \* longest backend query response
MaxRecords == 1200   \* most records given to one upsert_vectors call
MaxTextLen == 250    \* longest chunk text given to the preview

\* Optional values: None, or Some(v)
None == <<>>
Some(v) == <<v>>
NoError == "none"    \* no error was raised

-----------------------------------------------------------------------------
(* Fixed-point numbers *)

One == 2 * Grid                      \* 1.0
Two == 2 * One                       \* 2.0, the largest cosine distance
Thresholds == 0 .. One               \* thresholds in [0, 1]
\* distances the backend may report: [0, 2] and one step outside on each side
Distances == {2 * k : k \in -1 .. (One + 1)}

-----------------------------------------------------------------------------
(* The vector index backend's query responses *)

FullMetadata ==
    [source |-> "sky.txt", chunk_index |-> 3,
     source_text |-> <<"T", "h", "e", " ", "s", "k", "y">>]
OtherMetadata ==
    [source |-> "sea.txt", chunk_index |-> 1, source_text |-> <<"s", "e", "a">>]

\* A response vector carries key, distance and metadata; the code reads
\* distance and metadata with defaults, so either may be absent.
BackendVectors ==
    {[key |-> "k1", distance |-> d, metadata |-> FullMetadata] : d \in Distances}
      \cup {[key |-> "k2", metadata |-> OtherMetadata],
            [key |-> "k3", distance |-> One]}

SeqsUpTo(S, n) == UNION {[1 .. m -> S] : m \in 0 .. n}

BackendResponses(top_k) == SeqsUpTo(BackendVectors, top_k)

-----------------------------------------------------------------------------
(* S3VectorClient.query_vectors *)

\* dict.get(key, default)
Get(d, key, default) == IF key \in DOMAIN d THEN d[key] ELSE default

\* similarity_score = 1 - (distance / 2)
SimilarityScoreHalved(distance) == One - distance
SimilarityScore(distance) == One - (distance \div 2)

\* if similarity_score >= similarity_threshold
PassesThresholdAlways(score, threshold) == TRUE
PassesThreshold(score, threshold) == score >= threshold

\* one iteration of `for vector in response.get("vectors", [])`
ProcessVectorPrepends(matches, vector, threshold) ==
    LET distance == Get(vector, "distance", 0)
        similarity_score == SimilarityScore(distance)
    IN  IF PassesThreshold(similarity_score, threshold)
        THEN <<[id |-> vector.key,
                score |-> similarity_score,
                metadata |-> Get(vector, "metadata", <<>>)]>> \o matches
        ELSE matches
ProcessVector(matches, vector, threshold) ==
    LET distance == Get(vector, "distance", 0)
        similarity_score == SimilarityScore(distance)
    IN  IF PassesThreshold(similarity_score, threshold)
        THEN Append(matches, [id |-> vector.key,
                              score |-> similarity_score,
                              metadata |-> Get(vector, "metadata", <<>>)])
        ELSE matches

\* the whole result-processing loop, lines 209-233
RECURSIVE FilterMatches(_, _, _)
FilterMatches(matches, vectors, threshold) ==
    IF vectors = <<>> THEN matches
    ELSE FilterMatches(ProcessVector(matches, Head(vectors), threshold),
                       Tail(vectors), threshold)

\* query_vectors(query_embedding, top_k, similarity_threshold=threshold)
QueryVectorsCall(top_k, threshold) ==
    /\ qv_pc = "idle"
    /\ qv_pc' = "calling"
    /\ qv_top_k' = top_k
    /\ qv_threshold' = threshold
    /\ qv_response' = <<>>
    /\ qv_idx' = 0
    /\ qv_distance' = 0
    /\ qv_score' = 0
    /\ qv_matches' = <<>>
    /\ qv_backend_calls' = 0
    /\ UNCHANGED qv_frame

\* response = self.s3vectors.query_vectors(**params) returns
QueryBackendOk(response) ==
    /\ qv_pc = "calling"
    /\ qv_backend_calls' = qv_backend_calls + 1
    /\ qv_response' = response
    /\ qv_pc' = "loop"
    /\ UNCHANGED <<qv_threshold, qv_top_k, qv_idx, qv_distance, qv_score, qv_matches>>
    /\ UNCHANGED qv_frame

\* self.s3vectors.query_vectors raises ClientError: logged and re-raised
QueryBackendFailRetries ==
    /\ qv_pc = "calling"
    /\ qv_backend_calls' = qv_backend_calls + 1
    /\ qv_pc' = IF qv_backend_calls + 1 < 3 THEN "calling" ELSE "raised"
    /\ UNCHANGED <<qv_threshold, qv_top_k, qv_response, qv_idx, qv_distance,
                   qv_score, qv_matches>>
    /\ UNCHANGED qv_frame
QueryBackendFail ==
    /\ qv_pc = "calling"
    /\ qv_backend_calls' = qv_backend_calls + 1
    /\ qv_pc' = "raised"
    /\ UNCHANGED <<qv_threshold, qv_top_k, qv_response, qv_idx, qv_distance,
                   qv_score, qv_matches>>
    /\ UNCHANGED qv_frame

\* one iteration of the result loop
QueryVectorsIterate ==
    /\ qv_pc = "loop"
    /\ qv_idx < Len(qv_response)
    /\ LET vector == qv_response[qv_idx + 1]
       IN  /\ qv_distance' = Get(vector, "distance", 0)
           /\ qv_score' = SimilarityScore(Get(vector, "distance", 0))
           /\ qv_matches' = ProcessVector(qv_matches, vector, qv_threshold)
    /\ qv_idx' = qv_idx + 1
    /\ UNCHANGED <<qv_pc, qv_threshold, qv_top_k, qv_response, qv_backend_calls>>
    /\ UNCHANGED qv_frame

\* return matches
QueryVectorsReturn ==
    /\ qv_pc = "loop"
    /\ qv_idx = Len(qv_response)
    /\ qv_pc' = "returned"
    /\ UNCHANGED <<qv_threshold, qv_top_k, qv_response, qv_idx, qv_distance,
                   qv_score, qv_matches, qv_backend_calls>>
    /\ UNCHANGED qv_frame

-----------------------------------------------------------------------------
(* S3VectorClient.upsert_vectors *)

max_retries == 3     \* self.max_retries
retry_delay == 1     \* self.retry_delay, seconds
batch_size == 500    \* batch_size, the S3 Vectors limit

RECURSIVE Pow2(_)
Pow2(n) == IF n = 0 THEN 1 ELSE 2 * Pow2(n - 1)

Min(a, b) == IF a < b THEN a ELSE b

\* formatted_vectors: one formatted record per input record, in input order;
\* a record is identified by its key, the position it had in the input
FormattedVectors(n) == [j \in 1 .. n |-> j]

\* batch = formatted_vectors[i:i + batch_size]  (i counts from 0)
BatchOffByOne(vectors, i) == SubSeq(vectors, i + 1, Min(i + batch_size - 1, Len(vectors)))
Batch(vectors, i) == SubSeq(vectors, i + 1, Min(i + batch_size, Len(vectors)))

\* time.sleep(self.retry_delay * (2 ** attempt))
BackoffDelayTimes(attempt) == retry_delay * (2 * attempt)
BackoffDelay(attempt) == retry_delay * Pow2(attempt)

\* if attempt < self.max_retries - 1: sleep and retry, else raise
MayRetryOnceMore(attempt) == attempt < max_retries
MayRetry(attempt) == attempt < max_retries - 1

\* Errors put_vectors may raise: botocore ClientErrors with their code, and an
\* error that is no ClientError (the call never reached the service)
PutErrors ==
    {[client_error |-> TRUE, code |-> "TooManyRequestsException"],
     [client_error |-> TRUE, code |-> "ValidationException"],
     [client_error |-> FALSE, code |-> "EndpointConnectionError"]}

\* except ClientError as e: if e.response['Error']['Code'] == 'TooManyRequestsException'
IsRateLimitAnyClientError(e) == e.client_error
IsRateLimit(e) == e.client_error /\ e.code = "TooManyRequestsException"

\* the record of one self.s3vectors.put_vectors(vectors=batch) call
PutEvent(outcome) ==
    [op |-> "put_vectors", start |-> up_i, attempt |-> up_attempt,
     batch |-> Batch(up_vectors, up_i), outcome |-> outcome]

\* the record of one time.sleep(delay) call
SleepEvent(delay) == [op |-> "sleep", start |-> up_i, delay |-> delay]

\* upsert_vectors(vectors) with n records: format them, enter the batch loop
UpsertCall(n) ==
    /\ up_pc = "idle"
    /\ up_pc' = "batch"
    /\ up_vectors' = FormattedVectors(n)
    /\ up_i' = 0
    /\ up_attempt' = 0
    /\ up_total_uploaded' = 0
    /\ up_index' = {}
    /\ up_log' = <<>>
    /\ up_result' = 0
    /\ up_error' = NoError
    /\ UNCHANGED up_frame

\* put_vectors succeeds and the backend stores the batch: count the batch,
\* break, go to the next batch, whose retry loop starts at attempt 0
PutVectorsOkKeepsAttempt ==
    /\ up_pc = "batch"
    /\ up_i < Len(up_vectors)
    /\ up_log' = Append(up_log, PutEvent("ok"))
    /\ up_index' = up_index \cup {Batch(up_vectors, up_i)[k] :
                                      k \in 1 .. Len(Batch(up_vectors, up_i))}
    /\ up_total_uploaded' = up_total_uploaded + Len(Batch(up_vectors, up_i))
    /\ up_i' = up_i + batch_size
    /\ UNCHANGED <<up_attempt, up_pc, up_vectors, up_result, up_error>>
    /\ UNCHANGED up_frame
PutVectorsOk ==
    /\ up_pc = "batch"
    /\ up_i < Len(up_vectors)
    /\ up_log' = Append(up_log, PutEvent("ok"))
    /\ up_index' = up_index \cup {Batch(up_vectors, up_i)[k] :
                                      k \in 1 .. Len(Batch(up_vectors, up_i))}
    /\ up_total_uploaded' = up_total_uploaded + Len(Batch(up_vectors, up_i))
    /\ up_i' = up_i + batch_size
    /\ up_attempt' = 0
    /\ UNCHANGED <<up_pc, up_vectors, up_result, up_error>>
    /\ UNCHANGED up_frame

\* put_vectors raises e: a rate-limit error is retried after a sleep while
\* attempts are left; every other error, and the last rate-limit error, is
\* raised to the caller
PutVectorsRaisesRollsBack(e) ==
    /\ up_pc = "batch"
    /\ up_i < Len(up_vectors)
    /\ IF IsRateLimit(e) /\ MayRetry(up_attempt)
       THEN /\ up_log' = up_log \o <<PutEvent(e.code), SleepEvent(BackoffDelay(up_attempt))>>
            /\ up_attempt' = up_attempt + 1
            /\ UNCHANGED <<up_pc, up_error>>
       ELSE /\ up_log' = Append(up_log, PutEvent(e.code))
            /\ up_pc' = "raised"
            /\ up_error' = e.code
            /\ UNCHANGED up_attempt
    /\ up_index' = IF IsRateLimit(e) /\ MayRetry(up_attempt) THEN up_index ELSE {}
    /\ UNCHANGED <<up_vectors, up_i, up_total_uploaded, up_result>>
    /\ UNCHANGED up_frame
PutVectorsRaises(e) ==
    /\ up_pc = "batch"
    /\ up_i < Len(up_vectors)
    /\ IF IsRateLimit(e) /\ MayRetry(up_attempt)
       THEN /\ up_log' = up_log \o <<PutEvent(e.code), SleepEvent(BackoffDelay(up_attempt))>>
            /\ up_attempt' = up_attempt + 1
            /\ UNCHANGED <<up_pc, up_error>>
       ELSE /\ up_log' = Append(up_log, PutEvent(e.code))
            /\ up_pc' = "raised"
            /\ up_error' = e.code
            /\ UNCHANGED up_attempt
    /\ UNCHANGED <<up_vectors, up_i, up_total_uploaded, up_index, up_result>>
    /\ UNCHANGED up_frame

\* the batch loop is exhausted: return total_uploaded
UpsertReturn ==
    /\ up_pc = "batch"
    /\ up_i >= Len(up_vectors)
    /\ up_pc' = "returned"
    /\ up_result' = up_total_uploaded
    /\ UNCHANGED <<up_vectors, up_i, up_attempt, up_total_uploaded, up_index, up_log,
                   up_error>>
    /\ UNCHANGED up_frame

-----------------------------------------------------------------------------
(* S3VectorClient.delete_vectors *)

delete_batch_size == 500    \* batch_size of delete_vectors

\* batch = vector_ids[i:i + batch_size]  (i counts from 0)
DeleteBatch(vector_ids, i) ==
    SubSeq(vector_ids, i + 1, Min(i + delete_batch_size, Len(vector_ids)))

\* Errors the backend delete call may raise: a botocore ClientError, and an
\* error that is no ClientError
DeleteErrors == {"ClientError", "EndpointConnectionError"}

\* the record of one self.s3vectors.delete_vectors(keys=batch) call
DeleteEvent(outcome) ==
    [start |-> dl_i, batch |-> DeleteBatch(dl_vector_ids, dl_i), outcome |-> outcome]

\* the keys of a sequence of keys
KeysOf(batch) == {batch[k] : k \in 1 .. Len(batch)}

\* delete_vectors(vector_ids) with n keys; the index holds these keys and
\* one more vector, key 0
DeleteCall(n) ==
    /\ dl_pc = "idle"
    /\ dl_pc' = "batch"
    /\ dl_vector_ids' = [j \in 1 .. n |-> j]
    /\ dl_index' = 0 .. n
    /\ dl_i' = 0
    /\ dl_deleted_count' = 0
    /\ dl_log' = <<>>
    /\ dl_result' = 0
    /\ dl_error' = NoError
    /\ UNCHANGED dl_frame

\* the backend deletes the batch: count it, go to the next batch
DeleteVectorsOk ==
    /\ dl_pc = "batch"
    /\ dl_i < Len(dl_vector_ids)
    /\ dl_log' = Append(dl_log, DeleteEvent("ok"))
    /\ dl_index' = dl_index \ KeysOf(DeleteBatch(dl_vector_ids, dl_i))
    /\ dl_deleted_count' = dl_deleted_count + Len(DeleteBatch(dl_vector_ids, dl_i))
    /\ dl_i' = dl_i + delete_batch_size
    /\ UNCHANGED <<dl_pc, dl_vector_ids, dl_result, dl_error>>
    /\ UNCHANGED dl_frame

\* the backend call raises e, deleting nothing: a ClientError is logged and
\* re-raised, any other error propagates
DeleteVectorsSkipsFailedBatch(e) ==
    /\ dl_pc = "batch"
    /\ dl_i < Len(dl_vector_ids)
    /\ dl_log' = Append(dl_log, DeleteEvent(e))
    /\ dl_i' = dl_i + delete_batch_size
    /\ UNCHANGED <<dl_pc, dl_vector_ids, dl_deleted_count, dl_index, dl_result, dl_error>>
    /\ UNCHANGED dl_frame
DeleteVectorsRaises(e) ==
    /\ dl_pc = "batch"
    /\ dl_i < Len(dl_vector_ids)
    /\ dl_log' = Append(dl_log, DeleteEvent(e))
    /\ dl_pc' = "raised"
    /\ dl_error' = e
    /\ UNCHANGED <<dl_vector_ids, dl_i, dl_deleted_count, dl_index, dl_result>>
    /\ UNCHANGED dl_frame

\* the batch loop is exhausted: return deleted_count
DeleteReturn ==
    /\ dl_pc = "batch"
    /\ dl_i >= Len(dl_vector_ids)
    /\ dl_pc' = "returned"
    /\ dl_result' = dl_deleted_count
    /\ UNCHANGED <<dl_vector_ids, dl_i, dl_deleted_count, dl_log, dl_index, dl_error>>
    /\ UNCHANGED dl_frame

-----------------------------------------------------------------------------
(* Settings, src/src/config.py *)

settings_top_k == 6                      \* Settings.top_k default
settings_similarity_threshold == Grid    \* Settings.similarity_threshold default, 0.5

-----------------------------------------------------------------------------
(* Texts are sequences of characters *)

Text(n) == [j \in 1 .. n |-> "q"]

IsSpace(c) == c = " "

\* str.strip()
RECURSIVE LStrip(_)
LStrip(t) == IF t # <<>> /\ IsSpace(Head(t)) THEN LStrip(Tail(t)) ELSE t
RECURSIVE RStrip(_)
RStrip(t) == IF t # <<>> /\ IsSpace(t[Len(t)]) THEN RStrip(SubSeq(t, 1, Len(t) - 1)) ELSE t
Strip(t) == RStrip(LStrip(t))

-----------------------------------------------------------------------------
(* The Bedrock backend *)

\* the embedding the model returns for a text
EmbeddingOf(text) == [embedding_of |-> text]

\* response bodies of the generation model
GenResponses ==
    {[content |-> <<[type |-> "text", text |-> <<" ", "A", "n", "s", " ">>]>>,
      stop_reason |-> "end_turn",
      usage |-> [input_tokens |-> 5, output_tokens |-> 2]],
     [content |-> <<[type |-> "text", text |-> <<"A", "n", "s">>]>>],
     [content |-> <<>>, stop_reason |-> "end_turn"],
     [stop_reason |-> "max_tokens"]}

\* Responses of the index to one query: each stored key at most once
DistinctKeys(r) == \A a, b \in 1 .. Len(r) : a # b => r[a].key # r[b].key
IndexResponses(top_k) ==
    {r \in BackendResponses(Min(top_k, MaxVectors)) : DistinctKeys(r)}

-----------------------------------------------------------------------------
(* RAGService.process_query *)

NoResultsAnswer == "I couldn't find any relevant information to answer your question."

\* Python's `a or b`: b when a is falsy (None, 0, 0.0)
PyOr(a, b) == IF a = None \/ a = Some(0) THEN b ELSE a[1]

\* round(x, 4) of a score, in ten-thousandths (round half to even)
Round4(score) ==
    LET n == score * 10000
        q == n \div One
        r == n % One
    IN  IF 2 * r > One \/ (2 * r = One /\ q % 2 = 1) THEN q + 1 ELSE q

preview_length == 200    \* chunk_text[:200]

\* chunk_text[:200] + "..." if len(chunk_text) > 200 else chunk_text
TextPreviewAtLeast(chunk_text) ==
    IF Len(chunk_text) >= preview_length
    THEN SubSeq(chunk_text, 1, preview_length) \o <<".", ".", ".">>
    ELSE chunk_text
TextPreview(chunk_text) ==
    IF Len(chunk_text) > preview_length
    THEN SubSeq(chunk_text, 1, preview_length) \o <<".", ".", ".">>
    ELSE chunk_text

\* the entry of sources built from one match
SourceOf(match) ==
    [source |-> Get(match.metadata, "source", "Unknown"),
     chunk_index |-> Get(match.metadata, "chunk_index", 0),
     similarity_score |-> Round4(match.score),
     text_preview |-> TextPreview(Get(match.metadata, "source_text", <<>>))]

\* f"[Source {i+1}]: {chunk_text}", i counting from 0
ContextPart(i, match) ==
    <<"[Source ", i + 1, "]: ">> \o Get(match.metadata, "source_text", <<>>)

\* "\n\n".join(parts)
RECURSIVE Join(_)
Join(parts) ==
    IF parts = <<>> THEN <<>>
    ELSE IF Len(parts) = 1 THEN parts[1]
    ELSE parts[1] \o <<"\n\n">> \o Join(Tail(parts))

SourcesBestFirst(chunks) ==
    IF Len(chunks) = 2 /\ chunks[1].score < chunks[2].score
    THEN <<SourceOf(chunks[2]), SourceOf(chunks[1])>>
    ELSE [k \in 1 .. Len(chunks) |-> SourceOf(chunks[k])]
Sources(chunks) == [k \in 1 .. Len(chunks) |-> SourceOf(chunks[k])]
Context(chunks) == Join([k \in 1 .. Len(chunks) |-> ContextPart(k - 1, chunks[k])])

\* if not similar_chunks
NoResultsNever(similar_chunks) == FALSE
NoResults(similar_chunks) == similar_chunks = <<>>

EmbedCall(text) == [op |-> "embed", text |-> text]
QueryCall(embedding, top_k, threshold, filter) ==
    [op |-> "query_vectors", embedding |-> embedding, top_k |-> top_k,
     threshold |-> threshold, filter |-> filter]
GenerateCall(query, context) == [op |-> "generate", query |-> query, context |-> context]

\* process_query(query, max_chunks, similarity_threshold, metadata_filter) up
\* to its first suspension: resolve the parameters, then generate_embedding
\* invokes the embedding model with the query text
ProcessQueryStart(entry, query, max_chunks, similarity_threshold, metadata_filter) ==
    /\ pq_pc = "idle"
    /\ pq_entry = "none"
    /\ hc_pc = "idle" /\ gs_pc = "idle"
    /\ pq_entry' = entry
    /\ pq_query' = query
    /\ pq_req_threshold' = similarity_threshold
    /\ pq_max_chunks' = PyOr(max_chunks, settings_top_k)
    /\ pq_threshold' = PyOr(similarity_threshold, settings_similarity_threshold)
    /\ pq_filter' = metadata_filter
    /\ pq_calls' = Append(pq_calls, EmbedCall(query))
    /\ pq_pc' = "embed"
    /\ UNCHANGED <<pq_chunks, pq_result, pq_error, pq_outcomes>>

\* a caller inside the process calls process_query directly
ProcessQueryCall(query, max_chunks, similarity_threshold, metadata_filter) ==
    /\ ProcessQueryStart("direct", query, max_chunks, similarity_threshold, metadata_filter)
    /\ UNCHANGED http_status
    /\ UNCHANGED pq_frame

\* the embedding model answers: search_similar_chunks calls query_vectors,
\* which sends the query to the index
EmbedOk ==
    /\ pq_pc = "embed"
    /\ pq_calls' = Append(pq_calls,
                          QueryCall(EmbeddingOf(pq_query), pq_max_chunks,
                                    pq_threshold, pq_filter))
    /\ pq_outcomes' = Append(pq_outcomes, "ok")
    /\ pq_pc' = "search"
    /\ UNCHANGED <<pq_entry, pq_query, pq_req_threshold, pq_max_chunks, pq_threshold,
                   pq_filter, pq_chunks, pq_result, pq_error, http_status>>
    /\ UNCHANGED pq_frame

\* an unhandled exception of process_query reaches the caller; FastAPI
\* answers a request whose handler raised with status 500
Raise(error) ==
    /\ pq_pc' = "raised"
    /\ pq_error' = error
    /\ http_status' = IF pq_entry = "http" THEN 500 ELSE http_status
    /\ UNCHANGED <<pq_entry, pq_query, pq_req_threshold, pq_max_chunks, pq_threshold,
                   pq_filter, pq_chunks, pq_result, pq_calls>>

\* a QueryResult is returned; query_documents wraps it in a QueryResponse
Return(chunks, result) ==
    /\ pq_pc' = "returned"
    /\ pq_chunks' = chunks
    /\ pq_result' = result
    /\ http_status' = IF pq_entry = "http" THEN 200 ELSE http_status
    /\ UNCHANGED <<pq_entry, pq_query, pq_req_threshold, pq_max_chunks, pq_threshold,
                   pq_filter, pq_error>>

\* the embedding model call fails (ClientError, or a body without "embedding")
EmbedFailContinues(error) ==
    /\ pq_pc = "embed"
    /\ pq_outcomes' = Append(pq_outcomes, "error")
    /\ pq_calls' = Append(pq_calls,
                          QueryCall(EmbeddingOf(<<>>), pq_max_chunks,
                                    pq_threshold, pq_filter))
    /\ pq_pc' = "search"
    /\ UNCHANGED <<pq_entry, pq_query, pq_req_threshold, pq_max_chunks, pq_threshold,
                   pq_filter, pq_chunks, pq_result, pq_error, http_status>>
    /\ UNCHANGED pq_frame
EmbedFail(error) ==
    /\ pq_pc = "embed"
    /\ pq_outcomes' = Append(pq_outcomes, "error")
    /\ Raise(error)
    /\ UNCHANGED pq_frame

\* the index answers the query: query_vectors filters the response; with no
\* match process_query returns the fixed answer, otherwise it builds sources
\* and context and generate_answer invokes the generation model
SearchOk(response) ==
    /\ pq_pc = "search"
    /\ pq_outcomes' = Append(pq_outcomes, "ok")
    /\ LET similar_chunks == FilterMatches(<<>>, response, pq_threshold)
       IN  IF NoResults(similar_chunks)
           THEN /\ Return(similar_chunks,
                     Some([answer |-> NoResultsAnswer,
                           query |-> pq_query,
                           sources |-> <<>>,
                           chunks_found |-> 0]))
                /\ UNCHANGED pq_calls
           ELSE /\ pq_chunks' = similar_chunks
                /\ pq_calls' = Append(pq_calls,
                                      GenerateCall(pq_query, Context(similar_chunks)))
                /\ pq_pc' = "generate"
                /\ UNCHANGED <<pq_entry, pq_query, pq_req_threshold, pq_max_chunks,
                               pq_threshold, pq_filter, pq_result, pq_error,
                               http_status>>
    /\ UNCHANGED pq_frame

\* the index call fails: query_vectors and search_similar_chunks re-raise
SearchFailSwallowed ==
    /\ pq_pc = "search"
    /\ pq_outcomes' = Append(pq_outcomes, "error")
    /\ Return(<<>>, Some([answer |-> NoResultsAnswer, query |-> pq_query,
                          sources |-> <<>>, chunks_found |-> 0]))
    /\ UNCHANGED pq_calls
    /\ UNCHANGED pq_frame
SearchFail ==
    /\ pq_pc = "search"
    /\ pq_outcomes' = Append(pq_outcomes, "error")
    /\ Raise("ClientError")
    /\ UNCHANGED pq_frame

\* the generation model answers with body: generate_answer returns the
\* stripped text of the first content block, or raises ValueError when the
\* body has no content
GenerateResponds(body) ==
    /\ pq_pc = "generate"
    /\ IF "content" \in DOMAIN body /\ body.content # <<>>
       THEN /\ pq_outcomes' = Append(pq_outcomes, "ok")
            /\ Return(pq_chunks,
                 Some([answer |-> Strip(body.content[1].text),
                       query |-> pq_query,
                       sources |-> Sources(pq_chunks),
                       chunks_found |-> Len(pq_chunks)]))
       ELSE /\ pq_outcomes' = Append(pq_outcomes, "error")
            /\ Raise("ValueError")
            /\ UNCHANGED <<pq_chunks, pq_result>>
    /\ UNCHANGED pq_calls
    /\ UNCHANGED pq_frame

\* the generation model call fails with a ClientError, re-raised
GenerateFail ==
    /\ pq_pc = "generate"
    /\ pq_outcomes' = Append(pq_outcomes, "error")
    /\ Raise("ClientError")
    /\ UNCHANGED pq_frame

-----------------------------------------------------------------------------
(* Concurrent invocations of RAGService.process_query on one service object *)

\* the invocations in progress on the one RAGService
Invocations == {"a", "b"}

\* self.settings as __init__ stored it
InitialSettings ==
    [top_k |-> settings_top_k, similarity_threshold |-> settings_similarity_threshold]

\* the result returned when no chunk was found
NoResultsResult(query) ==
    [answer |-> NoResultsAnswer, query |-> query, sources |-> <<>>, chunks_found |-> 0]

\* the result returned after generation
AnswerResult(query, similar_chunks, answer) ==
    [answer |-> answer, query |-> query, sources |-> Sources(similar_chunks),
     chunks_found |-> Len(similar_chunks)]

\* generate_answer's return value for a body that has content
AnswerOf(body) == Strip(body.content[1].text)
HasContent(body) == "content" \in DOMAIN body /\ body.content # <<>>

\* invocation p of process_query starts: resolve the parameters into locals,
\* then generate_embedding invokes the embedding model
InvokeStartStoresThreshold(p, query, max_chunks, similarity_threshold) ==
    /\ cq_pc[p] = "idle"
    /\ cq_args' = [cq_args EXCEPT ![p] = [query |-> query, max_chunks |-> max_chunks,
                                          similarity_threshold |-> similarity_threshold]]
    /\ cq_max_chunks' = [cq_max_chunks EXCEPT ![p] = PyOr(max_chunks, cq_settings.top_k)]
    /\ cq_threshold' = [cq_threshold EXCEPT
                          ![p] = PyOr(similarity_threshold, cq_settings.similarity_threshold)]
    /\ cq_settings' = [cq_settings EXCEPT
                          !.similarity_threshold =
                              PyOr(similarity_threshold, cq_settings.similarity_threshold)]
    /\ cq_pc' = [cq_pc EXCEPT ![p] = "embed"]
    /\ UNCHANGED <<cq_response, cq_body, cq_chunks, cq_result>>
    /\ UNCHANGED cq_frame
InvokeStart(p, query, max_chunks, similarity_threshold) ==
    /\ cq_pc[p] = "idle"
    /\ cq_args' = [cq_args EXCEPT ![p] = [query |-> query, max_chunks |-> max_chunks,
                                          similarity_threshold |-> similarity_threshold]]
    /\ cq_max_chunks' = [cq_max_chunks EXCEPT ![p] = PyOr(max_chunks, cq_settings.top_k)]
    /\ cq_threshold' = [cq_threshold EXCEPT
                          ![p] = PyOr(similarity_threshold, cq_settings.similarity_threshold)]
    /\ cq_pc' = [cq_pc EXCEPT ![p] = "embed"]
    /\ UNCHANGED <<cq_settings, cq_response, cq_body, cq_chunks, cq_result>>
    /\ UNCHANGED cq_frame

\* the embedding model answers invocation p: query_vectors sends its query
InvokeEmbedOk(p) ==
    /\ cq_pc[p] = "embed"
    /\ cq_pc' = [cq_pc EXCEPT ![p] = "search"]
    /\ UNCHANGED <<cq_settings, cq_args, cq_max_chunks, cq_threshold, cq_response,
                   cq_body, cq_chunks, cq_result>>
    /\ UNCHANGED cq_frame

\* a backend call of invocation p fails: the exception leaves process_query
InvokeFail(p) ==
    /\ cq_pc[p] \in {"embed", "search", "generate"}
    /\ cq_pc' = [cq_pc EXCEPT ![p] = "raised"]
    /\ UNCHANGED <<cq_settings, cq_args, cq_max_chunks, cq_threshold, cq_response,
                   cq_body, cq_chunks, cq_result>>
    /\ UNCHANGED cq_frame

\* the index answers invocation p: filter, then return the fixed answer or
\* invoke the generation model
InvokeSearchOk(p, response) ==
    /\ cq_pc[p] = "search"
    /\ cq_response' = [cq_response EXCEPT ![p] = response]
    /\ LET similar_chunks == FilterMatches(<<>>, response, cq_threshold[p])
       IN  /\ cq_chunks' = [cq_chunks EXCEPT ![p] = similar_chunks]
           /\ IF NoResults(similar_chunks)
              THEN /\ cq_result' = [cq_result EXCEPT
                                      ![p] = Some(NoResultsResult(cq_args[p].query))]
                   /\ cq_pc' = [cq_pc EXCEPT ![p] = "returned"]
              ELSE /\ cq_pc' = [cq_pc EXCEPT ![p] = "generate"]
                   /\ UNCHANGED cq_result
    /\ UNCHANGED <<cq_settings, cq_args, cq_max_chunks, cq_threshold, cq_body>>
    /\ UNCHANGED cq_frame

\* the generation model answers invocation p with body
InvokeGenerateResponds(p, body) ==
    /\ cq_pc[p] = "generate"
    /\ cq_body' = [cq_body EXCEPT ![p] = body]
    /\ IF HasContent(body)
       THEN /\ cq_result' = [cq_result EXCEPT
                               ![p] = Some(AnswerResult(cq_args[p].query, cq_chunks[p],
                                                        AnswerOf(body)))]
            /\ cq_pc' = [cq_pc EXCEPT ![p] = "returned"]
       ELSE /\ cq_pc' = [cq_pc EXCEPT ![p] = "raised"]
            /\ UNCHANGED cq_result
    /\ UNCHANGED <<cq_settings, cq_args, cq_max_chunks, cq_threshold, cq_response,
                   cq_chunks>>
    /\ UNCHANGED cq_frame

-----------------------------------------------------------------------------
(* process_query coroutines on the event loop of the application *)

MaxWait == 3    \* time units an upstream call is followed for

\* the query_documents tasks the event loop has scheduled
Tasks == {"a", "b", "c"}

\* the phases in which process_query is inside an upstream call
UpstreamPhases == {"embed", "search", "generate"}

\* the event loop runs a scheduled task: process_query runs up to its first
\* upstream call.  `await self.generate_embedding(query)` enters a coroutine
\* whose body calls bedrock_client.invoke_model synchronously, so the thread
\* of the event loop stays inside the call until the response is there.
LoopRunsTask(t) ==
    /\ el_thread = "none"
    /\ el_pc[t] = "ready"
    /\ el_thread' = t
    /\ el_pc' = [el_pc EXCEPT ![t] = "embed"]
    /\ el_waited' = 0
    /\ UNCHANGED el_frame

\* the upstream call of the running task takes one more time unit
UpstreamCallPending ==
    /\ el_thread # "none"
    /\ el_waited < MaxWait
    /\ el_waited' = el_waited + 1
    /\ UNCHANGED <<el_thread, el_pc>>
    /\ UNCHANGED el_frame

\* the upstream call of the running task returns: the coroutine goes on,
\* synchronously, to the next upstream call
UpstreamCallReturns ==
    /\ el_thread # "none"
    /\ el_pc[el_thread] \in {"embed", "search"}
    /\ el_pc' = [el_pc EXCEPT
                   ![el_thread] = IF el_pc[el_thread] = "embed" THEN "search" ELSE "generate"]
    /\ el_waited' = 0
    /\ UNCHANGED el_thread
    /\ UNCHANGED el_frame

\* process_query of the running task ends (result returned after the search
\* found nothing or after generation, or exception of an upstream call): the
\* task is done and the event-loop thread is free again
TaskEnds(outcome) ==
    /\ el_thread # "none"
    /\ outcome = "returned" => el_pc[el_thread] \in {"search", "generate"}
    /\ el_pc' = [el_pc EXCEPT ![el_thread] = outcome]
    /\ el_thread' = "none"
    /\ el_waited' = 0
    /\ UNCHANGED el_frame

-----------------------------------------------------------------------------
(* process_query with the telemetry manager present and absent *)

\* get_telemetry() returns the TelemetryManager (TRUE) or None (FALSE)
TelemetrySettings == {TRUE, FALSE}

\* a run of process_query: its locals, the backend calls it made, the
\* telemetry it recorded and what it returned
IdleRun ==
    [pc |-> "idle", query |-> <<>>, max_chunks |-> 0, threshold |-> 0,
     chunks |-> <<>>, calls |-> <<>>, events |-> <<>>, body |-> <<>>, result |-> None]

\* what a block guarded by `if telemetry` / `if span` adds to the telemetry
Recorded(telemetry, events, new) == IF telemetry THEN events \o new ELSE events

\* process_query starts: spans opened and the user message recorded when
\* telemetry is on, parameters resolved, embedding model invoked
RunStart(telemetry, query, max_chunks, similarity_threshold) ==
    [IdleRun EXCEPT
        !.pc = "embed",
        !.query = query,
        !.max_chunks = PyOr(max_chunks, settings_top_k),
        !.threshold = PyOr(similarity_threshold, settings_similarity_threshold),
        !.events = Recorded(telemetry, <<>>,
                            <<"span rag.process_query", "span embeddings",
                              "event gen_ai.user.message">>),
        !.calls = <<EmbedCall(query)>>]

\* the embedding model call ends: metrics recorded when telemetry is on, then
\* the index is queried; a failure leaves process_query
RunAfterEmbed(telemetry, run, outcome) ==
    IF run.pc # "embed" THEN run
    ELSE IF outcome = "ok"
    THEN [run EXCEPT
            !.pc = "search",
            !.events = Recorded(telemetry, @,
                                <<"metric operation.duration", "metric token.usage",
                                  "span s3vectors.query">>),
            !.calls = Append(@, QueryCall(EmbeddingOf(run.query), run.max_chunks,
                                          run.threshold, None))]
    ELSE [run EXCEPT !.pc = "raised"]

\* the index answers: metrics recorded when telemetry is on; no match gives
\* the fixed answer, otherwise the generation model is invoked
RunAfterSearchNeedsTelemetry(telemetry, run, response) ==
    IF run.pc # "search" THEN run
    ELSE IF ~telemetry THEN [run EXCEPT !.pc = "raised"]
    ELSE LET similar_chunks == FilterMatches(<<>>, response, run.threshold)
             events == run.events \o <<"metric vector.search.duration",
                                        "metric chunks.retrieved">>
         IN  IF NoResults(similar_chunks)
             THEN [run EXCEPT
                     !.pc = "returned",
                     !.events = events \o <<"attribute rag.no_results">>,
                     !.result = Some(NoResultsResult(run.query))]
             ELSE [run EXCEPT
                     !.pc = "generate",
                     !.chunks = similar_chunks,
                     !.events = events \o <<"span chat", "event gen_ai.user.message">>,
                     !.calls = Append(@, GenerateCall(run.query, Context(similar_chunks)))]
RunAfterSearch(telemetry, run, response) ==
    IF run.pc # "search" THEN run
    ELSE LET similar_chunks == FilterMatches(<<>>, response, run.threshold)
             events == Recorded(telemetry, run.events,
                                <<"metric vector.search.duration",
                                  "metric chunks.retrieved">>)
         IN  IF NoResults(similar_chunks)
             THEN [run EXCEPT
                     !.pc = "returned",
                     !.events = Recorded(telemetry, events, <<"attribute rag.no_results">>),
                     !.result = Some(NoResultsResult(run.query))]
             ELSE [run EXCEPT
                     !.pc = "generate",
                     !.chunks = similar_chunks,
                     !.events = Recorded(telemetry, events,
                                         <<"span chat", "event gen_ai.user.message">>),
                     !.calls = Append(@, GenerateCall(run.query, Context(similar_chunks)))]

\* the index call fails: the exception leaves process_query
RunAfterSearchFailed(run) ==
    IF run.pc # "search" THEN run ELSE [run EXCEPT !.pc = "raised"]

\* the generation model answers with body: usage is recorded when telemetry
\* is on and the body carries it; the answer is returned
RunAfterGenerateRequiresUsage(telemetry, run, body) ==
    IF run.pc # "generate" THEN run
    ELSE IF HasContent(body) /\ "usage" \in DOMAIN body
    THEN [run EXCEPT
            !.pc = "returned",
            !.body = body,
            !.events = Recorded(telemetry, @, <<"attribute usage", "metric token.usage">>),
            !.result = Some(AnswerResult(run.query, run.chunks, AnswerOf(body)))]
    ELSE [run EXCEPT !.pc = "raised", !.body = body]
RunAfterGenerate(telemetry, run, body) ==
    IF run.pc # "generate" THEN run
    ELSE IF HasContent(body)
    THEN LET usage == Get(body, "usage", <<>>)
             events == Recorded(telemetry, run.events,
                                <<"attribute finish_reason">>
                                  \o (IF usage # <<>> THEN <<"attribute usage">> ELSE <<>>)
                                  \o <<"event gen_ai.assistant.message",
                                       "metric operation.duration">>
                                  \o (IF usage # <<>> THEN <<"metric token.usage">> ELSE <<>>)
                                  \o <<"event rag.sources.summary">>)
         IN  [run EXCEPT
                !.pc = "returned",
                !.body = body,
                !.events = events,
                !.result = Some(AnswerResult(run.query, run.chunks, AnswerOf(body)))]
    ELSE [run EXCEPT !.pc = "raised", !.body = body]

\* the same call, and the same backend answers, given to both runs
TelemetryStart(query, max_chunks, similarity_threshold) ==
    /\ \A w \in TelemetrySettings : tm_run[w].pc = "idle"
    /\ tm_run' = [w \in TelemetrySettings |->
                     RunStart(w, query, max_chunks, similarity_threshold)]
    /\ UNCHANGED tm_frame

TelemetryEmbedEnds(outcome) ==
    /\ \E w \in TelemetrySettings : tm_run[w].pc = "embed"
    /\ tm_run' = [w \in TelemetrySettings |-> RunAfterEmbed(w, tm_run[w], outcome)]
    /\ UNCHANGED tm_frame

TelemetrySearchResponds(response) ==
    /\ \E w \in TelemetrySettings : tm_run[w].pc = "search"
    /\ tm_run' = [w \in TelemetrySettings |-> RunAfterSearch(w, tm_run[w], response)]
    /\ UNCHANGED tm_frame

TelemetrySearchFails ==
    /\ \E w \in TelemetrySettings : tm_run[w].pc = "search"
    /\ tm_run' = [w \in TelemetrySettings |-> RunAfterSearchFailed(tm_run[w])]
    /\ UNCHANGED tm_frame

TelemetryGenerateResponds(body) ==
    /\ \E w \in TelemetrySettings : tm_run[w].pc = "generate"
    /\ tm_run' = [w \in TelemetrySettings |-> RunAfterGenerate(w, tm_run[w], body)]
    /\ UNCHANGED tm_frame

-----------------------------------------------------------------------------
(* The clock readings of RAGService.process_query *)

MaxTicks == 2             \* the clock advances by at most this between two readings
TicksPerHundredth == 4    \* clock ticks in 0.01 ms, the precision round(x, 2) keeps

ClockSteps == 0 .. MaxTicks

\* round(x, 2) of a time in ms: from ticks to hundredths of a ms, half to even
Round2(ticks) ==
    LET q == ticks \div TicksPerHundredth
        r == ticks % TicksPerHundredth
    IN  IF 2 * r > TicksPerHundredth \/ (2 * r = TicksPerHundredth /\ q % 2 = 1)
        THEN q + 1 ELSE q

\* a call of process_query starts at clock reading t: start_time is read, the
\* parameters are resolved and the span opened (taking a), phase_start is
\* read, the embedding is requested
TimingStart(t, a) ==
    /\ tq_pc = "idle"
    /\ tq_start_time' = t
    /\ tq_phase_start' = t + a
    /\ tq_clock' = t + a
    /\ tq_pc' = "embed"
    /\ UNCHANGED <<tq_embedding_time, tq_search_time, tq_generation_time, tq_result>>
    /\ UNCHANGED tq_frame

\* the embedding call returns after d: embedding_time_ms is taken; after a
\* more, phase_start is read again and the search is requested
TimingEmbedReturns(d, a) ==
    /\ tq_pc = "embed"
    /\ tq_embedding_time' = (tq_clock + d) - tq_phase_start
    /\ tq_phase_start' = tq_clock + d + a
    /\ tq_clock' = tq_clock + d + a
    /\ tq_pc' = "search"
    /\ UNCHANGED <<tq_start_time, tq_search_time, tq_generation_time, tq_result>>
    /\ UNCHANGED tq_frame

\* the search returns after d: search_time_ms is taken; after a more, either
\* the zero-results result is built, or phase_start is read and the answer is
\* requested
TimingSearchReturns(d, a, no_results) ==
    /\ tq_pc = "search"
    /\ tq_search_time' = (tq_clock + d) - tq_phase_start
    /\ tq_clock' = tq_clock + d + a
    /\ IF no_results
       THEN /\ tq_result' = [processing_time_ms |-> Round2((tq_clock + d + a) - tq_start_time)]
            /\ tq_pc' = "returned"
            /\ UNCHANGED tq_phase_start
       ELSE /\ tq_phase_start' = tq_clock + d + a
            /\ tq_pc' = "generate"
            /\ UNCHANGED tq_result
    /\ UNCHANGED <<tq_start_time, tq_embedding_time, tq_generation_time>>
    /\ UNCHANGED tq_frame

\* the generation returns after d: generation_time_ms is taken; after a more,
\* processing_time is computed and the result is built
TimingGenerateReturnsSumsPhases(d, a) ==
    /\ tq_pc = "generate"
    /\ tq_generation_time' = (tq_clock + d) - tq_phase_start
    /\ tq_clock' = tq_clock + d + a
    /\ LET processing_time ==
               Round2(tq_embedding_time + tq_search_time + ((tq_clock + d) - tq_phase_start))
       IN  tq_result' =
               [processing_time_ms |-> processing_time,
                performance_breakdown |->
                    [embedding_ms |-> Round2(tq_embedding_time),
                     vector_search_ms |-> Round2(tq_search_time),
                     llm_generation_ms |-> Round2((tq_clock + d) - tq_phase_start),
                     total_ms |-> processing_time]]
    /\ tq_pc' = "returned"
    /\ UNCHANGED <<tq_start_time, tq_phase_start, tq_embedding_time, tq_search_time>>
    /\ UNCHANGED tq_frame
TimingGenerateReturns(d, a) ==
    /\ tq_pc = "generate"
    /\ tq_generation_time' = (tq_clock + d) - tq_phase_start
    /\ tq_clock' = tq_clock + d + a
    /\ LET processing_time == Round2((tq_clock + d + a) - tq_start_time)
       IN  tq_result' =
               [processing_time_ms |-> processing_time,
                performance_breakdown |->
                    [embedding_ms |-> Round2(tq_embedding_time),
                     vector_search_ms |-> Round2(tq_search_time),
                     llm_generation_ms |-> Round2((tq_clock + d) - tq_phase_start),
                     total_ms |-> processing_time]]
    /\ tq_pc' = "returned"
    /\ UNCHANGED <<tq_start_time, tq_phase_start, tq_embedding_time, tq_search_time>>
    /\ UNCHANGED tq_frame

-----------------------------------------------------------------------------
(* RAGService.health_check *)

ProbeOutcomes == {"ok", "error"}

\* services[name] = "healthy" in the try block, "unhealthy" in its except block
ProbeStatus(outcome) == IF outcome = "ok" THEN "healthy" ELSE "unhealthy"

\* The vector client as S3VectorClient.__init__ leaves it (no settings
\* attribute), and with a Settings object attached from outside
GatewayAsConstructed == [bucket_name |-> "bucket", index_name |-> "rag-index"]
Gateways ==
    {GatewayAsConstructed}
      \cup {[bucket_name |-> "bucket", index_name |-> "rag-index",
             settings |-> [s3_vector_dimension |-> d]] : d \in {1024, 1536}}

default_dimension == 1024    \* the dimension reported without settings

\* get_index_stats(): placeholder values, no backend call; hasattr guards the
\* read of self.settings
GetIndexStatsNoHasattr(gateway) ==
    IF "settings" \in DOMAIN gateway
    THEN [total_vectors |-> 0, dimension |-> gateway.settings.s3_vector_dimension,
          index_size |-> 0, status |-> "preview_mode"]
    ELSE [error |-> "AttributeError"]
GetIndexStats(gateway) ==
    [total_vectors |-> 0,
     dimension |-> IF "settings" \in DOMAIN gateway
                   THEN gateway.settings.s3_vector_dimension
                   ELSE default_dimension,
     index_size |-> 0,
     status |-> "preview_mode"]

\* whether a call ended with an exception
Failed(result) == "error" \in DOMAIN result

\* a caller calls get_index_stats on a gateway
GetIndexStatsCall(gateway) ==
    /\ gs_pc = "idle"
    /\ hc_pc = "idle" /\ pq_pc = "idle" /\ pq_entry = "none"
    /\ gs_gateway' = gateway
    /\ gs_result' = GetIndexStats(gateway)
    /\ gs_pc' = IF Failed(GetIndexStats(gateway)) THEN "raised" ELSE "returned"
    /\ UNCHANGED <<hc_pc, hc_services, hc_probes, hc_index_available, hc_status>>
    /\ UNCHANGED hc_frame

\* status = "healthy" if all(s == "healthy" for s in services.values()) else "degraded"
EndpointStatusAny(services) ==
    IF \E name \in DOMAIN services : services[name] = "healthy"
    THEN "healthy" ELSE "degraded"
EndpointStatus(services) ==
    IF \A name \in DOMAIN services : services[name] = "healthy"
    THEN "healthy" ELSE "degraded"

\* GET /health: health_check up to its suspension: generate_embedding("test")
\* invokes the embedding model
HealthCheckCall ==
    /\ hc_pc = "idle"
    /\ pq_pc = "idle" /\ pq_entry = "none" /\ gs_pc = "idle"
    /\ hc_services' = <<>>
    /\ hc_probes' = <<>>
    /\ hc_pc' = "embed_probe"
    /\ UNCHANGED <<hc_index_available, hc_status, gs_pc, gs_gateway, gs_result>>
    /\ UNCHANGED hc_frame

\* the embedding probe ends with outcome embed: its try/except records the
\* status; then get_index_stats runs on the vector client, whether or not the
\* index backend is available, the mapping is returned and the endpoint
\* derives its status
HealthCheckRaisesOnEmbed(embed, index_available) ==
    /\ hc_pc = "embed_probe"
    /\ hc_index_available' = index_available
    /\ IF embed = "error"
       THEN /\ hc_probes' = <<[op |-> "generate_embedding", outcome |-> embed]>>
            /\ hc_pc' = "raised"
            /\ UNCHANGED <<hc_services, hc_status>>
       ELSE /\ hc_probes' = <<[op |-> "generate_embedding", outcome |-> embed],
                              [op |-> "get_index_stats", outcome |-> "ok"]>>
            /\ hc_services' = ("bedrock" :> ProbeStatus(embed))
                                @@ ("s3_vectors" :> "healthy")
            /\ hc_status' = "healthy"
            /\ hc_pc' = "returned"
    /\ UNCHANGED <<gs_pc, gs_gateway, gs_result>>
    /\ UNCHANGED hc_frame
HealthCheckQueriesIndex(embed, index_available) ==
    /\ hc_pc = "embed_probe"
    /\ hc_index_available' = index_available
    /\ LET stats == IF index_available THEN "ok" ELSE "error"
           services == ("bedrock" :> ProbeStatus(embed))
                         @@ ("s3_vectors" :> ProbeStatus(stats))
       IN  /\ hc_probes' = <<[op |-> "generate_embedding", outcome |-> embed],
                             [op |-> "get_index_stats", outcome |-> stats]>>
           /\ hc_services' = services
           /\ hc_status' = EndpointStatus(services)
    /\ hc_pc' = "returned"
    /\ UNCHANGED <<gs_pc, gs_gateway, gs_result>>
    /\ UNCHANGED hc_frame
HealthCheckProbes(embed, index_available) ==
    /\ hc_pc = "embed_probe"
    /\ hc_index_available' = index_available
    /\ LET stats == IF Failed(GetIndexStats(GatewayAsConstructed)) THEN "error" ELSE "ok"
           services == ("bedrock" :> ProbeStatus(embed))
                         @@ ("s3_vectors" :> ProbeStatus(stats))
       IN  /\ hc_probes' = <<[op |-> "generate_embedding", outcome |-> embed],
                             [op |-> "get_index_stats", outcome |-> stats]>>
           /\ hc_services' = services
           /\ hc_status' = EndpointStatus(services)
    /\ hc_pc' = "returned"
    /\ UNCHANGED <<gs_pc, gs_gateway, gs_result>>
    /\ UNCHANGED hc_frame

-----------------------------------------------------------------------------
(* The source projection of one match, applied to a chunk text *)

\* a chunk text of n characters, each character telling its position
ChunkText(n) == [j \in 1 .. n |-> j % 10]

\* the match query_vectors builds for a stored chunk with this text
MatchWithText(chunk_text) ==
    [id |-> "k1", score |-> One,
     metadata |-> [source |-> "sky.txt", chunk_index |-> 0, source_text |-> chunk_text]]

\* the loop body of process_query, lines 352-361, on one match
BuildSourcePreview(chunk_text) ==
    /\ pv_pc = "idle"
    /\ pv_text' = chunk_text
    /\ pv_preview' = SourceOf(MatchWithText(chunk_text)).text_preview
    /\ pv_pc' = "done"
    /\ UNCHANGED pv_frame

-----------------------------------------------------------------------------
(* Ingestion followed by a query: upsert_vectors, the index, query_vectors *)

\* np.array(values, dtype=np.float32).tolist(): each component loses the
\* precision float32 cannot hold (here: its lowest bit)
ToFloat32(values) == [j \in 1 .. Len(values) |-> 2 * (values[j] \div 2)]

\* formatted_vector = {"key": v["id"], "data": {"float32": ...}, "metadata": v["metadata"]}
FormatVectorNoText(v) ==
    [key |-> v.id, data |-> ToFloat32(v.values),
     metadata |-> [source |-> v.metadata.source, chunk_index |-> v.metadata.chunk_index]]
FormatVector(v) ==
    [key |-> v.id, data |-> ToFloat32(v.values), metadata |-> v.metadata]

\* the index after put_vectors(vectors=batch): a vector replaces the stored
\* vector of the same key
RECURSIVE PutVectors(_, _)
PutVectors(index, batch) ==
    IF batch = <<>> THEN index
    ELSE PutVectors({x \in index : x.key # Head(batch).key} \cup {Head(batch)},
                    Tail(batch))

\* The responses the index may give to a query vector: every stored vector,
\* nearest first, with its metadata; the distance is 0 for a stored vector
\* equal to the query vector and positive otherwise
IndexQueryResponses(index, query_vector) ==
    LET Answers(x) ==
            {[key |-> x.key, distance |-> d, metadata |-> x.metadata] :
                d \in IF x.data = query_vector THEN {0}
                      ELSE {e \in Distances : e > 0 /\ e <= Two}}
        n == Cardinality(index)
    IN  {r \in [1 .. n -> UNION {Answers(x) : x \in index}] :
            /\ \A a, b \in 1 .. n : a # b => r[a].key # r[b].key
            /\ \A k \in 1 .. n - 1 : r[k].distance <= r[k + 1].distance}

\* upsert_vectors(chunks), every put_vectors call succeeding
IngestChunks(chunks) ==
    /\ rt_pc = "idle"
    /\ rt_chunks' = chunks
    /\ LET formatted_vectors == [j \in 1 .. Len(chunks) |-> FormatVector(chunks[j])]
       IN  rt_index' = PutVectors(rt_index, Batch(formatted_vectors, 0))
    /\ rt_pc' = "stored"
    /\ UNCHANGED <<rt_asked, rt_threshold, rt_matches>>
    /\ UNCHANGED rt_frame

\* query_vectors(query_embedding, top_k, similarity_threshold=threshold) with
\* the embedding of the ingested chunk j; the index answers with response
QueryIngested(j, threshold, response) ==
    /\ rt_pc = "stored"
    /\ j \in 1 .. Len(rt_chunks)
    /\ response \in IndexQueryResponses(rt_index, ToFloat32(rt_chunks[j].values))
    /\ rt_asked' = j
    /\ rt_threshold' = threshold
    /\ rt_matches' = FilterMatches(<<>>, response, threshold)
    /\ rt_pc' = "returned"
    /\ UNCHANGED <<rt_chunks, rt_index>>
    /\ UNCHANGED rt_frame

-----------------------------------------------------------------------------
(* POST /query, src/src/app.py *)

query_min_length == 1        \* Field(..., min_length=1, ...)
query_max_length == 1000     \* Field(..., max_length=1000)
max_chunks_ge == 1           \* Field(default=None, ge=1, ...)
max_chunks_le == 20          \* Field(default=None, le=20)

\* query: str = Field(..., min_length=1, max_length=1000)
ValidQueryNoMinLength(query) == Len(query) <= query_max_length
ValidQuery(query) == Len(query) >= query_min_length /\ Len(query) <= query_max_length

\* max_chunks: Optional[int] = Field(default=None, ge=1, le=20)
ValidMaxChunks(max_chunks) ==
    max_chunks = None \/ (max_chunks[1] >= max_chunks_ge /\ max_chunks[1] <= max_chunks_le)

\* similarity_threshold: Optional[float] = Field(default=None, ge=0.0, le=1.0)
ValidThreshold(threshold) ==
    threshold = None \/ (threshold[1] >= 0 /\ threshold[1] <= One)

\* the status FastAPI answers a request body that fails validation with
\* (RequestValidationError; app.py installs no handler of its own)
ValidationErrorStatus == 422

\* POST /query with a JSON body: the body is validated against QueryRequest;
\* an invalid body is answered without calling the handler, a valid one is
\* handed to query_documents, which calls process_query
QueryDocuments(query, max_chunks, similarity_threshold, metadata_filter) ==
    /\ pq_pc = "idle"
    /\ pq_entry = "none"
    /\ hc_pc = "idle" /\ gs_pc = "idle"
    /\ IF ValidQuery(query) /\ ValidMaxChunks(max_chunks)
          /\ ValidThreshold(similarity_threshold)
       THEN /\ ProcessQueryStart("http", query, max_chunks, similarity_threshold,
                                 metadata_filter)
            /\ UNCHANGED http_status
       ELSE /\ pq_entry' = "http"
            /\ pq_query' = query
            /\ pq_req_threshold' = similarity_threshold
            /\ http_status' = ValidationErrorStatus
            /\ UNCHANGED <<pq_pc, pq_max_chunks, pq_threshold, pq_filter, pq_chunks,
                           pq_result, pq_error, pq_calls, pq_outcomes>>
    /\ UNCHANGED pq_frame

-----------------------------------------------------------------------------
(* State after construction: no call in progress *)

Init ==
    /\ qv_pc = "idle" /\ qv_threshold = 0 /\ qv_top_k = 0 /\ qv_response = <<>>
    /\ qv_idx = 0 /\ qv_distance = 0 /\ qv_score = 0 /\ qv_matches = <<>>
    /\ qv_backend_calls = 0
    /\ up_pc = "idle" /\ up_vectors = <<>> /\ up_i = 0 /\ up_attempt = 0
    /\ up_total_uploaded = 0 /\ up_index = {} /\ up_log = <<>>
    /\ up_result = 0 /\ up_error = NoError
    /\ pq_pc = "idle" /\ pq_entry = "none" /\ pq_query = <<>>
    /\ pq_req_threshold = None /\ pq_max_chunks = 0 /\ pq_threshold = 0
    /\ pq_filter = None /\ pq_chunks = <<>> /\ pq_result = None
    /\ pq_error = NoError /\ pq_calls = <<>> /\ pq_outcomes = <<>> /\ http_status = 0
    /\ pv_pc = "idle" /\ pv_text = <<>> /\ pv_preview = <<>>
    /\ cq_settings = InitialSettings
    /\ cq_pc = [p \in Invocations |-> "idle"]
    /\ cq_args = [p \in Invocations |-> <<>>]
    /\ cq_max_chunks = [p \in Invocations |-> 0]
    /\ cq_threshold = [p \in Invocations |-> 0]
    /\ cq_response = [p \in Invocations |-> <<>>]
    /\ cq_body = [p \in Invocations |-> <<>>]
    /\ cq_chunks = [p \in Invocations |-> <<>>]
    /\ cq_result = [p \in Invocations |-> None]
    /\ el_thread = "none" /\ el_pc = [t \in Tasks |-> "ready"] /\ el_waited = 0
    /\ tm_run = [w \in TelemetrySettings |-> IdleRun]
    /\ tq_pc = "idle" /\ tq_clock = 0 /\ tq_start_time = 0 /\ tq_phase_start = 0
    /\ tq_embedding_time = 0 /\ tq_search_time = 0 /\ tq_generation_time = 0
    /\ tq_result = <<>>
    /\ dl_pc = "idle" /\ dl_vector_ids = <<>> /\ dl_i = 0 /\ dl_deleted_count = 0
    /\ dl_log = <<>> /\ dl_index = {} /\ dl_result = 0 /\ dl_error = NoError
    /\ hc_pc = "idle" /\ hc_services = <<>> /\ hc_probes = <<>>
    /\ hc_index_available = TRUE /\ hc_status = "none"
    /\ gs_pc = "idle" /\ gs_gateway = <<>> /\ gs_result = <<>>
    /\ rt_pc = "idle" /\ rt_chunks = <<>> /\ rt_index = {} /\ rt_asked = 0
    /\ rt_threshold = 0 /\ rt_matches = <<>>

\* A client of the gateway's query operation
NextQuery ==
    \/ \E k \in 1 .. MaxVectors, t \in Thresholds : QueryVectorsCall(k, t)
    \/ \E r \in BackendResponses(qv_top_k) : QueryBackendOk(r)
    \/ QueryBackendFail
    \/ QueryVectorsIterate
    \/ QueryVectorsReturn

SpecQuery == Init /\ [][NextQuery]_vars

\* A client of the gateway's upsert operation
NextUpsert ==
    \/ \E n \in 0 .. MaxRecords : UpsertCall(n)
    \/ PutVectorsOk
    \/ \E e \in PutErrors : PutVectorsRaises(e)
    \/ UpsertReturn

SpecUpsert == Init /\ [][NextUpsert]_vars

\* A query whose retrieval found one chunk, of any length up to MaxTextLen
NextPreview ==
    \E n \in 0 .. MaxTextLen : BuildSourcePreview(ChunkText(n))

SpecPreview == Init /\ [][NextPreview]_vars

\* One process_query call under a clock that never runs backwards
NextTiming ==
    \/ \E t \in ClockSteps, a \in ClockSteps : TimingStart(t, a)
    \/ \E d \in ClockSteps, a \in ClockSteps : TimingEmbedReturns(d, a)
    \/ \E d \in ClockSteps, a \in ClockSteps, z \in BOOLEAN : TimingSearchReturns(d, a, z)
    \/ \E d \in ClockSteps, a \in ClockSteps : TimingGenerateReturns(d, a)

SpecTiming == Init /\ [][NextTiming]_vars

\* Tasks of one event loop; each upstream call takes any time up to MaxWait
NextLoop ==
    \/ \E t \in Tasks : LoopRunsTask(t)
    \/ UpstreamCallPending
    \/ UpstreamCallReturns
    \/ \E o \in {"returned", "raised"} : TaskEnds(o)

SpecLoop == Init /\ [][NextLoop]_vars

\* Inputs and backend answers of the concurrent invocations
ConcurrentThresholds == {None, Some(0), Some(One)}
ConcurrentMaxChunks == {None, Some(1)}
ConcurrentResponses(top_k) ==
    {r \in {<<>>,
            <<[key |-> "k1", distance |-> 0, metadata |-> FullMetadata]>>,
            <<[key |-> "k3", distance |-> One]>>,
            <<[key |-> "k1", distance |-> 0, metadata |-> FullMetadata],
              [key |-> "k3", distance |-> One]>>} : Len(r) <= top_k}
ConcurrentBodies ==
    {[content |-> <<[type |-> "text", text |-> <<" ", "A", "n", "s", " ">>]>>,
      stop_reason |-> "end_turn"],
     [stop_reason |-> "max_tokens"]}

\* Two invocations on one service, their steps interleaved in every order
NextConcurrent ==
    \E p \in Invocations :
        \/ \E m \in ConcurrentMaxChunks, t \in ConcurrentThresholds :
              InvokeStart(p, Text(1), m, t)
        \/ InvokeEmbedOk(p)
        \/ InvokeFail(p)
        \/ \E r \in ConcurrentResponses(cq_max_chunks[p]) : InvokeSearchOk(p, r)
        \/ \E body \in ConcurrentBodies : InvokeGenerateResponds(p, body)

SpecConcurrent == Init /\ [][NextConcurrent]_vars

\* One delete_vectors call with up to MaxRecords keys, each backend call
\* succeeding or failing
NextDelete ==
    \/ \E n \in 0 .. MaxRecords : DeleteCall(n)
    \/ DeleteVectorsOk
    \/ \E e \in DeleteErrors : DeleteVectorsRaises(e)
    \/ DeleteReturn

SpecDelete == Init /\ [][NextDelete]_vars

\* Chunks to ingest: two documents, embeddings of two components
SkyText == <<"T", "h", "e", " ", "s", "k", "y", " ", "i", "s", " ", "b", "l", "u", "e", ".">>
IngestTexts == {SkyText, <<>>}
IngestEmbeddings == [1 .. 2 -> 0 .. 2]
IngestChunkSet ==
    [id : {"a", "b"}, values : IngestEmbeddings,
     metadata : [source : {"sky.txt"}, chunk_index : {0}, source_text : IngestTexts]]
IngestInputs ==
    {c \in SeqsUpTo(IngestChunkSet, 2) :
        Len(c) >= 1 /\ \A a, b \in 1 .. Len(c) : a # b => c[a].id # c[b].id}

\* An ingestion, then a query with the embedding of one ingested chunk
NextRoundTrip ==
    \/ \E c \in IngestInputs : IngestChunks(c)
    \/ \E j \in 1 .. Len(rt_chunks), t \in Thresholds :
          \E r \in IndexQueryResponses(rt_index, ToFloat32(rt_chunks[j].values)) :
              QueryIngested(j, t, r)

SpecRoundTrip == Init /\ [][NextRoundTrip]_vars

\* Inputs of a query
Queries == {Text(0), Text(1)}
MaxChunksInputs == {None, Some(0), Some(1)}
ThresholdInputs == {None} \cup {Some(t) : t \in Thresholds}
FilterInputs == {None, Some([source |-> "doc.txt"])}

\* One query run twice, with and without telemetry, on the same backend answers
NextTelemetry ==
    \/ \E q \in Queries, m \in ConcurrentMaxChunks, t \in ThresholdInputs :
          TelemetryStart(q, m, t)
    \/ \E o \in ProbeOutcomes : TelemetryEmbedEnds(o)
    \/ \E r \in ConcurrentResponses(tm_run[TRUE].max_chunks) : TelemetrySearchResponds(r)
    \/ TelemetrySearchFails
    \/ \E body \in GenResponses : TelemetryGenerateResponds(body)

SpecTelemetry == Init /\ [][NextTelemetry]_vars

\* Clients of the query pipeline: HTTP requests and direct callers
Next ==
    \/ \E q \in Queries \cup {Text(query_max_length + 1)},
          m \in MaxChunksInputs \cup {Some(max_chunks_le + 1)},
          t \in ThresholdInputs \cup {Some(-1), Some(One + 1)},
          f \in FilterInputs : QueryDocuments(q, m, t, f)
    \/ \E q \in Queries, m \in MaxChunksInputs, t \in ThresholdInputs,
          f \in FilterInputs : ProcessQueryCall(q, m, t, f)
    \/ EmbedOk
    \/ \E e \in {"ClientError", "KeyError"} : EmbedFail(e)
    \/ \E r \in IndexResponses(pq_max_chunks) : SearchOk(r)
    \/ SearchFail
    \/ \E body \in GenResponses : GenerateResponds(body)
    \/ GenerateFail
    \/ HealthCheckCall
    \/ \E e \in ProbeOutcomes, up \in BOOLEAN : HealthCheckProbes(e, up)
    \/ \E g \in Gateways : GetIndexStatsCall(g)

Spec == Init /\ [][Next]_vars

-----------------------------------------------------------------------------
(* Claims about query_vectors *)

\* C1: every match query_vectors holds or returns has score >= the threshold
\* the call was made with, for every backend response and threshold in [0,1].
C1_MatchesMeetThreshold ==
    qv_pc \in {"loop", "returned"} =>
        \A i \in 1 .. Len(qv_matches) : qv_matches[i].score >= qv_threshold

\* a call returned after keeping one vector and discarding another
C1_Witness ==
    /\ qv_pc = "returned"
    /\ qv_threshold > 0
    /\ Len(qv_matches) = 1
    /\ Len(qv_response) = 2

\* C2: for a distance d in [0, 2] the computed score 1 - d/2 lies in [0, 1],
\* d = 0 gives 1.0 and d = 2 gives 0.0.
C2_ScoreInUnitInterval ==
    (qv_pc = "loop" /\ qv_idx > 0 /\ qv_distance >= 0 /\ qv_distance <= Two) =>
        /\ qv_score >= 0 /\ qv_score <= One
        /\ (qv_distance = 0 => qv_score = One)
        /\ (qv_distance = Two => qv_score = 0)
        /\ 2 * qv_score = 2 * One - qv_distance

\* the loop computed the score of a backend-reported distance of exactly 2
C2_Witness ==
    /\ qv_pc = "loop" /\ qv_idx > 0
    /\ Get(qv_response[qv_idx], "distance", 0) = Two
    /\ qv_distance = Two /\ qv_score = 0

-----------------------------------------------------------------------------
(* Claims about upsert_vectors *)

IsPut(ev) == ev.op = "put_vectors"
IsSleep(ev) == ev.op = "sleep"

\* the put_vectors calls made so far, in call order
PutCalls == SelectSeq(up_log, IsPut)

\* the events of the batch that starts at input offset b, in call order
EventsOf(b) == LET OfBatch(ev) == ev.start = b IN SelectSeq(up_log, OfBatch)
OutcomesOf(b) == LET calls == SelectSeq(EventsOf(b), IsPut)
                 IN  [k \in 1 .. Len(calls) |-> calls[k].outcome]
SleepsOf(b) == LET sleeps == SelectSeq(EventsOf(b), IsSleep)
               IN  [k \in 1 .. Len(sleeps) |-> sleeps[k].delay]

\* the input offsets at which batches were sent
BatchStarts == {up_log[k].start : k \in 1 .. Len(up_log)}

NoPutFailed == \A k \in 1 .. Len(PutCalls) : PutCalls[k].outcome = "ok"

RECURSIVE ConcatBatches(_)
ConcatBatches(calls) ==
    IF calls = <<>> THEN <<>> ELSE Head(calls).batch \o ConcatBatches(Tail(calls))

RateLimit == "TooManyRequestsException"

\* C4: when no put_vectors call fails, N records are sent in exactly
\* ceil(N/500) calls, each of at most 500 records and all but the last of
\* exactly 500, and the batches concatenated in call order are the input;
\* 1200 records go out as 500, 500, 200 and 0 records make no call.
C4_BatchesPartitionInput ==
    (up_pc = "returned" /\ NoPutFailed) =>
        LET n == Len(up_vectors)
            calls == PutCalls
        IN  /\ Len(calls) = (n + 499) \div 500
            /\ \A k \in 1 .. Len(calls) :
                  /\ Len(calls[k].batch) <= 500
                  /\ Len(calls[k].batch) >= 1
                  /\ (k < Len(calls) => Len(calls[k].batch) = 500)
            /\ ConcatBatches(calls) = up_vectors
            /\ (n = 1200 => [k \in 1 .. Len(calls) |-> Len(calls[k].batch)] = <<500, 500, 200>>)
            /\ (n = 0 => up_log = <<>>)

\* 1200 records were upserted with no failure, in three calls
C4_Witness ==
    /\ up_pc = "returned" /\ NoPutFailed
    /\ Len(up_vectors) = 1200
    /\ Len(PutCalls) = 3

\* every batch sent so far went through at once or after exactly two
\* rate-limit failures, and one of them did the latter
OnlyRateLimitedTwice ==
    /\ \A b \in BatchStarts :
          OutcomesOf(b) \in {<<"ok">>, <<RateLimit, RateLimit, "ok">>}
    /\ \E b \in BatchStarts : OutcomesOf(b) = <<RateLimit, RateLimit, "ok">>

\* C5: a batch whose put_vectors call is rate limited on its first two
\* attempts and succeeds on the third costs exactly two sleeps, of 1 s and
\* then 2 s, is counted as uploaded, and does not fail the upsert: the call
\* returns the count of all records.
C5_TwoRateLimitsThenSuccess ==
    /\ \A b \in BatchStarts :
          OutcomesOf(b) = <<RateLimit, RateLimit, "ok">> =>
              /\ SleepsOf(b) = <<1, 2>>
              /\ [k \in 1 .. 5 |-> EventsOf(b)[k].op] =
                     <<"put_vectors", "sleep", "put_vectors", "sleep", "put_vectors">>
              /\ up_total_uploaded >= b + Len(Batch(up_vectors, b))
    /\ (OnlyRateLimitedTwice /\ up_pc # "batch") =>
          /\ up_pc = "returned"
          /\ up_result = Len(up_vectors)

\* an upsert of more than one batch returned after two rate-limit retries
C5_Witness ==
    /\ up_pc = "returned"
    /\ OnlyRateLimitedTwice
    /\ Len(up_vectors) > 500
    /\ up_result = Len(up_vectors)

\* C6: a batch is sent at most 3 times; when all 3 attempts are rate limited
\* the error is raised after the third, with exactly two sleeps before it and
\* none after it.
C6_AtMostThreeAttempts ==
    \A b \in BatchStarts :
        /\ Len(OutcomesOf(b)) <= 3
        /\ OutcomesOf(b) = <<RateLimit, RateLimit, RateLimit>> =>
              /\ up_pc = "raised"
              /\ up_error = RateLimit
              /\ Len(SleepsOf(b)) = 2
              /\ SleepsOf(b) = <<1, 2>>
              /\ IsPut(up_log[Len(up_log)])
              /\ up_log[Len(up_log)].start = b

\* the second batch was rate limited three times and the upsert raised
C6_Witness ==
    /\ up_pc = "raised"
    /\ Len(up_vectors) > 500
    /\ OutcomesOf(500) = <<RateLimit, RateLimit, RateLimit>>

\* C7: a put_vectors failure that is no rate-limit error ends the upsert at
\* once: it is the last call made (no retry, no sleep, no later batch) and
\* the error is raised.
C7_OtherErrorFailsAtOnce ==
    \A k \in 1 .. Len(up_log) :
        (IsPut(up_log[k]) /\ up_log[k].outcome \notin {"ok", RateLimit}) =>
            /\ k = Len(up_log)
            /\ up_pc = "raised"
            /\ up_error = up_log[k].outcome

\* the first batch went through after a retry, the second failed with a
\* ClientError that is no rate limit, and a third batch was still to send
C7_Witness ==
    /\ up_pc = "raised"
    /\ up_error = "ValidationException"
    /\ Len(up_vectors) > 1000
    /\ OutcomesOf(0) = <<RateLimit, "ok">>
    /\ OutcomesOf(500) = <<"ValidationException">>

-----------------------------------------------------------------------------
(* Claims about process_query and POST /query *)

CallsOf(op) == LET IsOp(c) == c.op = op IN SelectSeq(pq_calls, IsOp)

\* search_similar_chunks has returned in this run: the run went on to the
\* generation call or returned a result
RetrievalReturned ==
    \/ pq_pc \in {"generate", "returned"}
    \/ (pq_pc = "raised" /\ CallsOf("generate") # <<>>)

\* C3: when retrieval returns zero matches, process_query returns
\* chunks_found = 0, no sources and the fixed "couldn't find" answer, and the
\* generation backend is not invoked in that run.
C3_NoMatchesNoGeneration ==
    (RetrievalReturned /\ pq_chunks = <<>>) =>
        /\ pq_pc = "returned"
        /\ pq_result # None
        /\ pq_result[1].chunks_found = 0
        /\ pq_result[1].sources = <<>>
        /\ pq_result[1].answer = NoResultsAnswer
        /\ CallsOf("generate") = <<>>

\* the embedding and the index were called, the threshold 1.0 left no match
\* and the query returned a result
C3_Witness ==
    /\ pq_pc = "returned"
    /\ pq_chunks = <<>>
    /\ pq_threshold = One
    /\ Len(pq_calls) = 2
    /\ pq_result # None

\* C8: a POST /query request with an empty query string is rejected, and the
\* embedding backend is not invoked for it.
C8_EmptyQueryRejectedAtBoundary ==
    (pq_entry = "http" /\ pq_query = <<>>) =>
        /\ http_status >= 400 /\ http_status < 500
        /\ pq_pc = "idle"
        /\ pq_result = None
        /\ CallsOf("embed") = <<>>

\* an HTTP request with an empty query and otherwise valid fields was answered
C8_Witness ==
    /\ pq_entry = "http"
    /\ pq_query = <<>>
    /\ pq_req_threshold = Some(One)
    /\ http_status # 0

\* C9: a POST /query request whose query is the empty string is answered with
\* HTTP status 400.
C9_EmptyQueryStatus400 ==
    (pq_entry = "http" /\ pq_query = <<>> /\ http_status # 0) => http_status = 400

\* C10: process_query called directly with an empty query string never
\* invokes the embedding backend with that empty string.
C10_NoEmbeddingOfEmptyQuery ==
    \A k \in 1 .. Len(pq_calls) :
        pq_calls[k].op = "embed" => pq_calls[k].text # <<>>

-----------------------------------------------------------------------------
(* Claims about the source preview *)

\* C11: the text_preview of a source is the chunk text when the text has at
\* most 200 characters, and otherwise its first 200 characters followed by
\* "..." (203 characters); a text of 250 characters gives 203.
C11_PreviewTruncation ==
    pv_pc = "done" =>
        /\ Len(pv_text) <= 200 => pv_preview = pv_text
        /\ Len(pv_text) > 200 =>
              /\ Len(pv_preview) = 203
              /\ \A j \in 1 .. 200 : pv_preview[j] = pv_text[j]
              /\ \A j \in 201 .. 203 : pv_preview[j] = "."
        /\ Len(pv_text) = 250 => Len(pv_preview) = 203

\* the preview of a text of 250 characters was built
C11_Witness ==
    /\ pv_pc = "done"
    /\ Len(pv_text) = 250
    /\ Len(pv_preview) = 203

-----------------------------------------------------------------------------
(* Claims about ingestion followed by a query *)

\* C12: after upsert_vectors stored a chunk, query_vectors called with the
\* chunk's own embedding (distance 0 at the index) returns a match for that
\* chunk with score 1.0 and a metadata source_text equal to the ingested
\* text, whatever the threshold in [0, 1].
C12_RoundTrip ==
    rt_pc = "returned" =>
        \E k \in 1 .. Len(rt_matches) :
            /\ rt_matches[k].id = rt_chunks[rt_asked].id
            /\ rt_matches[k].score = One
            /\ "source_text" \in DOMAIN rt_matches[k].metadata
            /\ rt_matches[k].metadata.source_text = rt_chunks[rt_asked].metadata.source_text

\* the sky chunk was ingested next to another chunk and found again with
\* threshold 1.0, which discarded the other chunk
C12_Witness ==
    /\ rt_pc = "returned"
    /\ rt_threshold = One
    /\ Len(rt_chunks) = 2
    /\ rt_chunks[rt_asked].metadata.source_text = SkyText
    /\ Len(rt_matches) = 1

-----------------------------------------------------------------------------
(* Claims about the phases of process_query *)

\* the threshold the request asks retrieval to apply
RequestedThreshold ==
    IF pq_req_threshold = None THEN settings_similarity_threshold
    ELSE pq_req_threshold[1]

\* C13: process_query applies the request's similarity_threshold to
\* retrieval whenever the request supplies one (any accepted value in
\* [0.0, 1.0], 0.0 included) and settings.similarity_threshold only when the
\* request supplies none.
C13_RequestThresholdApplied ==
    \A k \in 1 .. Len(pq_calls) :
        pq_calls[k].op = "query_vectors" =>
            pq_calls[k].threshold = RequestedThreshold

\* the operations of the backend calls of the run, in order
OpsCalled == [k \in 1 .. Len(pq_calls) |-> pq_calls[k].op]

\* C14: in every run of process_query the embedding backend is invoked
\* exactly once and before the vector query; the vector query is invoked at
\* most once and only after the embedding returned; the generation backend is
\* invoked at most once and only after the vector query returned a non-empty
\* match list.
C14_PhaseOrder ==
    pq_pc # "idle" =>
        /\ Len(CallsOf("embed")) = 1
        /\ OpsCalled[1] = "embed"
        /\ Len(CallsOf("query_vectors")) <= 1
        /\ \A k \in 1 .. Len(pq_calls) :
              OpsCalled[k] = "query_vectors" =>
                  k = 2 /\ Len(pq_outcomes) >= 1 /\ pq_outcomes[1] = "ok"
        /\ Len(CallsOf("generate")) <= 1
        /\ \A k \in 1 .. Len(pq_calls) :
              OpsCalled[k] = "generate" =>
                  /\ k = 3
                  /\ Len(pq_outcomes) >= 2 /\ pq_outcomes[2] = "ok"
                  /\ pq_chunks # <<>>

\* a run went through the three phases: embedding, vector query with two
\* matches, generation
C14_Witness ==
    /\ pq_pc = "returned"
    /\ OpsCalled = <<"embed", "query_vectors", "generate">>
    /\ Len(pq_chunks) = 2

\* C15: if the embedding, retrieval or generation call fails during
\* process_query, the query ends with the error raised to the caller: no
\* QueryResult is returned (not even the zero-results answer) and no later
\* phase is invoked.
C15_FailureAborts ==
    \A k \in 1 .. Len(pq_outcomes) :
        pq_outcomes[k] = "error" =>
            /\ pq_pc = "raised"
            /\ pq_error # NoError
            /\ pq_result = None
            /\ k = Len(pq_outcomes)
            /\ Len(pq_calls) = k

\* the retrieval call failed after the embedding had returned
C15_Witness ==
    /\ pq_outcomes = <<"ok", "error">>
    /\ pq_pc = "raised"
    /\ OpsCalled = <<"embed", "query_vectors">>

-----------------------------------------------------------------------------
(* Claims about health_check *)

\* C16: health_check never raises: for every combination of dependency
\* failures it returns a mapping with both keys bedrock and s3_vectors, each
\* "healthy" or "unhealthy", and the vector-index probe is still run and
\* reported when the embedding probe failed.
C16_HealthCheckNeverRaises ==
    /\ hc_pc # "raised"
    /\ hc_pc = "returned" =>
          /\ DOMAIN hc_services = {"bedrock", "s3_vectors"}
          /\ \A name \in DOMAIN hc_services :
                hc_services[name] \in {"healthy", "unhealthy"}
          /\ Len(hc_probes) = 2
          /\ hc_probes[1].op = "generate_embedding"
          /\ hc_probes[2].op = "get_index_stats"
          /\ hc_services["bedrock"] = "healthy" <=> hc_probes[1].outcome = "ok"
          /\ hc_services["s3_vectors"] = "healthy" <=> hc_probes[2].outcome = "ok"
    /\ hc_pc \in {"idle", "embed_probe"} => hc_services = <<>>

\* the embedding probe failed, the index probe ran after it and is reported
C16_Witness ==
    /\ hc_pc = "returned"
    /\ hc_probes[1].outcome = "error"
    /\ hc_services["bedrock"] = "unhealthy"
    /\ hc_services["s3_vectors"] = "healthy"

-----------------------------------------------------------------------------
(* Claims about the backend call and the result order of query_vectors *)

\* C17: query_vectors calls the vector-index backend exactly once per
\* invocation; when that call fails, query_vectors fails without a second
\* attempt and returns no matches.
C17_OneBackendCall ==
    /\ qv_pc = "calling" => qv_backend_calls = 0
    /\ qv_pc \in {"loop", "returned", "raised"} => qv_backend_calls = 1
    /\ qv_pc = "raised" => qv_matches = <<>> /\ qv_response = <<>>

\* the single backend call of an invocation failed
C17_Witness ==
    /\ qv_pc = "raised"
    /\ qv_backend_calls = 1

\* the vectors among the first n of the response whose score 1 - d/2 reaches
\* the threshold, in response order
PassingPrefix(n) ==
    LET Passes(v) == 2 * One - Get(v, "distance", 0) >= 2 * qv_threshold
    IN  SelectSeq(SubSeq(qv_response, 1, n), Passes)

\* C18: the matches query_vectors returns are a subsequence of the backend's
\* response: the results that pass the threshold, each exactly once and in
\* the order the backend returned them, with no re-sorting.
C18_MatchesInResponseOrder ==
    qv_pc \in {"loop", "returned"} =>
        LET passing == PassingPrefix(qv_idx)
        IN  /\ Len(qv_matches) = Len(passing)
            /\ \A k \in 1 .. Len(passing) :
                  /\ qv_matches[k].id = passing[k].key
                  /\ 2 * qv_matches[k].score = 2 * One - Get(passing[k], "distance", 0)
                  /\ qv_matches[k].metadata = Get(passing[k], "metadata", <<>>)

\* the backend answered with the farther vector first; both passed and were
\* returned in that order, the lower score first
C18_Witness ==
    /\ qv_pc = "returned"
    /\ Len(qv_response) = 2
    /\ Len(qv_matches) = 2
    /\ qv_matches[1].score < qv_matches[2].score
    /\ qv_matches[1].id # qv_matches[2].id

-----------------------------------------------------------------------------
(* Claims about delete_vectors *)

\* the keys of the batches the backend deleted
DeletedKeys ==
    UNION {KeysOf(dl_log[k].batch) : k \in {j \in 1 .. Len(dl_log) : dl_log[j].outcome = "ok"}}

\* C19: delete_vectors sends keys in batches of at most 500 in input order;
\* on the first failing batch it raises, sends no later batch, and leaves the
\* keys of the earlier batches deleted; when no batch fails it returns the
\* number of keys given.
C19_DeleteBatches ==
    dl_pc # "idle" =>
        LET n == Len(dl_vector_ids)
            sent == ConcatBatches(dl_log)
        IN  /\ \A k \in 1 .. Len(dl_log) :
                  /\ Len(dl_log[k].batch) >= 1
                  /\ Len(dl_log[k].batch) <= 500
                  /\ (k < Len(dl_log) => Len(dl_log[k].batch) = 500)
            /\ Len(sent) <= n
            /\ sent = SubSeq(dl_vector_ids, 1, Len(sent))
            /\ \A k \in 1 .. Len(dl_log) :
                  dl_log[k].outcome # "ok" => (k = Len(dl_log) /\ dl_pc = "raised")
            /\ dl_index = (0 .. n) \ DeletedKeys
            /\ dl_pc = "raised" =>
                  /\ dl_log # <<>>
                  /\ dl_log[Len(dl_log)].outcome # "ok"
                  /\ dl_error # NoError
                  /\ DeletedKeys = KeysOf(SubSeq(dl_vector_ids, 1, 500 * (Len(dl_log) - 1)))
            /\ dl_pc = "returned" =>
                  /\ sent = dl_vector_ids
                  /\ dl_result = n
                  /\ dl_index = {0}

\* 1200 keys were given, the second batch failed: the first 500 keys are
\* gone, the other 700 are still in the index and no third batch was sent
C19_Witness ==
    /\ dl_pc = "raised"
    /\ Len(dl_vector_ids) = 1200
    /\ Len(dl_log) = 2
    /\ dl_index = {0} \cup (501 .. 1200)

-----------------------------------------------------------------------------
(* Claims about concurrent invocations *)

\* the result process_query returns when it runs alone on a fresh service
\* with these arguments and these backend answers
SoloResult(args, response, body) ==
    LET threshold == PyOr(args.similarity_threshold, settings_similarity_threshold)
        similar_chunks == FilterMatches(<<>>, response, threshold)
    IN  IF similar_chunks = <<>>
        THEN Some(NoResultsResult(args.query))
        ELSE IF HasContent(body)
             THEN Some(AnswerResult(args.query, similar_chunks, AnswerOf(body)))
             ELSE None

\* C20: for any interleaving of concurrent process_query invocations on one
\* RAGService, no invocation writes state that another reads: each
\* invocation's result (answer, sources, chunks_found) is the one it would
\* produce if run alone with the same backend responses.
C20_InvocationsIndependent ==
    /\ cq_settings = InitialSettings
    /\ \A p \in Invocations :
          cq_pc[p] = "returned" =>
              cq_result[p] = SoloResult(cq_args[p], cq_response[p], cq_body[p])

\* both invocations returned: one asked for threshold 1.0 and found one
\* chunk, the other gave no threshold and found two with the same response
C20_Witness ==
    /\ cq_pc = [p \in Invocations |-> "returned"]
    /\ cq_args["a"].similarity_threshold = Some(One)
    /\ cq_args["b"].similarity_threshold = None
    /\ cq_response["a"] = cq_response["b"]
    /\ cq_result["a"][1].chunks_found = 1
    /\ cq_result["b"][1].chunks_found = 2

-----------------------------------------------------------------------------
(* Claims about scheduling on the event loop *)

\* C21: each upstream call of process_query (embedding, retrieval,
\* generation) is a suspension point: while one query is waiting for a slow
\* upstream call, another query scheduled on the same event loop can make
\* progress.
C21_UpstreamCallsSuspend ==
    \A t, u \in Tasks :
        (t # u /\ el_pc[t] \in UpstreamPhases /\ el_waited >= 1 /\ el_pc[u] = "ready")
            => ENABLED LoopRunsTask(u)

-----------------------------------------------------------------------------
(* Claims about telemetry *)

C24_IndexStatsPlaceholder ==
    /\ gs_pc # "raised"
    /\ gs_pc = "returned" =>
          /\ DOMAIN gs_result = {"total_vectors", "dimension", "index_size", "status"}
          /\ gs_result.total_vectors = 0
          /\ gs_result.index_size = 0
          /\ gs_result.status = "preview_mode"
          /\ gs_result.dimension =
                IF "settings" \in DOMAIN gs_gateway
                THEN gs_gateway.settings.s3_vector_dimension ELSE 1024

\* the call returned on a gateway without a settings attribute
C24_Witness ==
    /\ gs_pc = "returned"
    /\ gs_gateway = GatewayAsConstructed
    /\ gs_result.dimension = 1024

\* C26: the /health endpoint reports status "healthy" exactly when every
\* dependency reported by health_check is "healthy", and "degraded"
\* otherwise; it reports no other status value.
C26_EndpointStatus ==
    hc_pc = "returned" =>
        /\ hc_status \in {"healthy", "degraded"}
        /\ hc_status = "healthy" <=>
              (hc_services["bedrock"] = "healthy" /\ hc_services["s3_vectors"] = "healthy")

\* the endpoint reported "degraded" with one dependency healthy
C26_Witness ==
    /\ hc_pc = "returned"
    /\ hc_status = "degraded"
    /\ hc_services["bedrock"] = "unhealthy"
    /\ hc_services["s3_vectors"] = "healthy"

\* C30: health_check reports s3_vectors as "healthy" in every run, whatever
\* the state of the vector-index backend: get_index_stats makes no backend
\* call and cannot fail, so a vector-index outage is never reported as
\* "unhealthy".
C30_IndexAlwaysHealthy ==
    hc_pc = "returned" =>
        /\ hc_services["s3_vectors"] = "healthy"
        /\ hc_probes[2] = [op |-> "get_index_stats", outcome |-> "ok"]

\* the index backend was down during the check and s3_vectors was reported
\* healthy
C30_Witness ==
    /\ hc_pc = "returned"
    /\ ~hc_index_available
    /\ hc_services["s3_vectors"] = "healthy"
    /\ hc_status = "healthy"

-----------------------------------------------------------------------------
(* Claims about the result of process_query *)

\* the context expected for the first n matches: the blocks [Source 1] ..
\* [Source n], each followed by its chunk text, separated by a blank line
RECURSIVE NumberedBlocks(_, _)
NumberedBlocks(chunks, n) ==
    LET block == <<"[Source ", n, "]: ">> \o Get(chunks[n].metadata, "source_text", <<>>)
    IN  IF n = 0 THEN <<>>
        ELSE IF n = 1 THEN block
        ELSE NumberedBlocks(chunks, n - 1) \o <<"\n\n">> \o block

\* C25: in every result process_query returns, chunks_found equals the
\* length of sources and the number of matches retrieved, and source i is the
\* projection of match i: the context blocks are numbered [Source 1] ..
\* [Source n] and joined in retrieval order, with no re-ranking, dropping or
\* duplication.
C25_SourcesFollowMatches ==
    (pq_pc = "returned" /\ pq_result # None) =>
        LET result == pq_result[1]
            n == Len(pq_chunks)
        IN  /\ result.chunks_found = n
            /\ Len(result.sources) = n
            /\ \A i \in 1 .. n :
                  /\ result.sources[i].source = Get(pq_chunks[i].metadata, "source", "Unknown")
                  /\ result.sources[i].chunk_index = Get(pq_chunks[i].metadata, "chunk_index", 0)
                  /\ 2 * (result.sources[i].similarity_score * One
                            - pq_chunks[i].score * 10000) <= One
                  /\ 2 * (pq_chunks[i].score * 10000
                            - result.sources[i].similarity_score * One) <= One
            /\ \A k \in 1 .. Len(pq_calls) :
                  pq_calls[k].op = "generate" =>
                      pq_calls[k].context = NumberedBlocks(pq_chunks, n)

\* a generated answer over two matches, the weaker match retrieved first
C25_Witness ==
    /\ pq_pc = "returned"
    /\ Len(pq_chunks) = 2
    /\ pq_chunks[1].score < pq_chunks[2].score
    /\ pq_result[1].chunks_found = 2
    /\ pq_result[1].sources[1].source # pq_result[1].sources[2].source

-----------------------------------------------------------------------------
(* Claims about the reported times *)

\* the time from the start of process_query to the reading that computes
\* processing_time, in ticks
Elapsed == tq_clock - tq_start_time
PhaseSum == tq_embedding_time + tq_search_time + tq_generation_time
HasBreakdown == tq_pc = "returned" /\ "performance_breakdown" \in DOMAIN tq_result

\* C27 as stated: on a successful query, with a non-decreasing clock,
\* processing_time_ms is the time elapsed since the start of process_query,
\* it is at least the sum of the embedding, search and generation phase
\* times, and performance_breakdown.total_ms equals processing_time_ms.
C27_ProcessingTimeCoversPhases ==
    HasBreakdown =>
        /\ tq_result.processing_time_ms * TicksPerHundredth >= PhaseSum
        /\ tq_result.performance_breakdown.total_ms = tq_result.processing_time_ms

\* C27 amended: processing_time_ms is the time elapsed since the start of
\* process_query rounded to 0.01 ms; the elapsed time itself is at least the
\* sum of the phase times, so processing_time_ms is at least that sum less
\* the rounding error of 0.005 ms; total_ms equals processing_time_ms.
C27_ProcessingTimeRounded ==
    tq_pc = "returned" =>
        /\ 2 * (tq_result.processing_time_ms * TicksPerHundredth - Elapsed) <= TicksPerHundredth
        /\ 2 * (Elapsed - tq_result.processing_time_ms * TicksPerHundredth) <= TicksPerHundredth
        /\ Elapsed >= PhaseSum
        /\ 2 * tq_result.processing_time_ms * TicksPerHundredth + TicksPerHundredth
              >= 2 * PhaseSum
        /\ HasBreakdown =>
              tq_result.performance_breakdown.total_ms = tq_result.processing_time_ms

\* a query with a generated answer whose phases took less than the whole call
C27_Witness ==
    /\ HasBreakdown
    /\ tq_embedding_time > 0 /\ tq_search_time > 0 /\ tq_generation_time > 0
    /\ Elapsed > PhaseSum
    /\ tq_result.processing_time_ms > 0

-----------------------------------------------------------------------------
(* Claims about failures and retries across the batches of upsert_vectors *)

\* the input offsets of the batches in front of the batch at offset b
StartsBefore(b) == {k * 500 : k \in 0 .. (b \div 500) - 1}

\* C28: multi-batch upsert is not all-or-nothing: when batch k of
\* upsert_vectors fails, batches 1..k-1 have already been sent to the backend
\* and stay stored (nothing is rolled back), batches after k are never sent,
\* and the caller receives the error with no count of what was uploaded.
C28_PartialUpsert ==
    up_pc = "raised" =>
        /\ \A b \in StartsBefore(up_i) :
              OutcomesOf(b) # <<>> /\ OutcomesOf(b)[Len(OutcomesOf(b))] = "ok"
        /\ up_index = {up_vectors[j] : j \in 1 .. up_i}
        /\ \A b \in BatchStarts : b <= up_i
        /\ OutcomesOf(up_i) # <<>>
        /\ OutcomesOf(up_i)[Len(OutcomesOf(up_i))] # "ok"
        /\ up_error # NoError
        /\ up_result = 0

\* 1200 records were given; the second batch failed: the first 500 are
\* stored, the third batch was never sent, and no count was returned
C28_Witness ==
    /\ up_pc = "raised"
    /\ Len(up_vectors) = 1200
    /\ up_i = 500
    /\ up_index = 1 .. 500
    /\ up_total_uploaded = 500
    /\ up_result = 0

\* the attempt numbers of the put_vectors calls of the batch at offset b
AttemptsOf(b) == LET calls == SelectSeq(EventsOf(b), IsPut)
                 IN  [k \in 1 .. Len(calls) |-> calls[k].attempt]

\* C29: the retry budget of upsert_vectors is per batch, not per call: the
\* attempt counter starts again at the first attempt for every batch, so
\* rate-limit failures spent on one batch do not reduce the 3 attempts of a
\* later batch, and the backoff delay of each batch starts again at 1 second.
C29_RetryBudgetPerBatch ==
    \A b \in BatchStarts :
        /\ AttemptsOf(b) = [k \in 1 .. Len(AttemptsOf(b)) |-> k - 1]
        /\ Len(SleepsOf(b)) <= 2
        /\ SleepsOf(b) = SubSeq(<<1, 2>>, 1, Len(SleepsOf(b)))
        /\ (up_pc = "raised" /\ up_error = RateLimit /\ b = up_i) =>
              Len(OutcomesOf(b)) = 3

\* the first batch used two retries; the second batch still had its three
\* attempts and its delays began at 1 second again
C29_Witness ==
    /\ OutcomesOf(0) = <<RateLimit, RateLimit, "ok">>
    /\ OutcomesOf(500) = <<RateLimit, RateLimit, RateLimit>>
    /\ SleepsOf(500) = <<1, 2>>
    /\ up_pc = "raised"

====
